---- MODULE Spec2Model ----
(***************************************************************************)
(* ThreadPulse Daily: the daily game engine (core/dailyGameEngine) and the *)
(* session store (hooks/useGameStore) as state machines.                   *)
(*                                                                         *)
(* Text is a sequence of character codes.  A 32-bit word is a pair         *)
(* <<hi, lo>> of 16-bit halves, so that every intermediate value of the    *)
(* hash and of the generator stays inside TLC's 32-bit integers.           *)
(* An instant is [day |-> days since 1970-01-01, ms |-> millisecond of     *)
(* that UTC day].                                                          *)
(***************************************************************************)
EXTENDS Integers, Sequences, FiniteSets, TLC

(***************************************************************************)
(* 32-bit arithmetic of the JavaScript operators ^, |, >>>, + and          *)
(* Math.imul on words <<hi, lo>>.                                          *)
(***************************************************************************)
\* F applied to the value of e: JavaScript evaluates an operand before it is used
Apply(F(_), e) == CHOOSE r \in {F(x) : x \in {e}} : TRUE

Apply2(F(_, _), d, e) == CHOOSE r \in {F(x, y) : x \in {d}, y \in {e}} : TRUE

Pow2(n) ==
    <<1, 2, 4, 8, 16, 32, 64, 128, 256, 512, 1024, 2048, 4096, 8192, 16384, 32768, 65536>>[n + 1]

\* 2^16: a word is hi * HALF + lo
HALF == Pow2(16)

\* bit i of a
BitOf(a, i) == (a \div Pow2(i)) % 2

\* the 16-bit number whose bit i is bit[i]
FromBits(bit) ==
    (((bit[0] + 2 * bit[1]) + (4 * bit[2] + 8 * bit[3]))
      + ((16 * bit[4] + 32 * bit[5]) + (64 * bit[6] + 128 * bit[7])))
    + (((256 * bit[8] + 512 * bit[9]) + (1024 * bit[10] + 2048 * bit[11]))
      + ((4096 * bit[12] + 8192 * bit[13]) + (16384 * bit[14] + 32768 * bit[15])))

Xor16(a, b) == FromBits([i \in 0..15 |-> (BitOf(a, i) + BitOf(b, i)) % 2])

Or16(a, b) == FromBits([i \in 0..15 |-> IF BitOf(a, i) = 1 \/ BitOf(b, i) = 1 THEN 1 ELSE 0])

Xor32(x, y) ==
    LET Op(u, v) == <<Xor16(u[1], v[1]), Xor16(u[2], v[2])>>
    IN  Apply2(Op, x, y)

Or32(x, y) ==
    LET Op(u, v) == <<Or16(u[1], v[1]), Or16(u[2], v[2])>>
    IN  Apply2(Op, x, y)

\* x >>> n for 0 < n < 16
Shr32(x, n) ==
    LET Op(u) == <<u[1] \div Pow2(n), (u[2] \div Pow2(n)) + ((u[1] % Pow2(n)) * Pow2(16 - n))>>
    IN  Apply(Op, x)

\* (x + y) modulo 2^32
Add32(x, y) ==
    LET Op(u, v) == <<(u[1] + v[1] + ((u[2] + v[2]) \div HALF)) % HALF, (u[2] + v[2]) % HALF>>
    IN  Apply2(Op, x, y)

\* the full 32-bit product of two 16-bit numbers
Mul16(a, b) ==
    LET p == (a % 256) * b
        q == (a \div 256) * b
        lo == (p % HALF) + ((q % 256) * 256)
    IN  <<((p \div HALF) + (q \div 256) + (lo \div HALF)) % HALF, lo % HALF>>

\* Math.imul: the low 32 bits of the product
Imul32(x, y) ==
    LET Op(u, v) ==
            LET ll == Mul16(u[2], v[2])
                cross == (Mul16(u[1], v[2])[2] + Mul16(u[2], v[1])[2]) % HALF
            IN  <<(ll[1] + cross) % HALF, ll[2]>>
    IN  Apply2(Op, x, y)

\* a small non-negative integer as a word
Word(n) == <<n \div HALF, n % HALF>>

(***************************************************************************)
(* The UTC calendar: what Date's getUTCFullYear / getUTCMonth / getUTCDate *)
(* return for a day number, and the day number of a calendar date.         *)
(***************************************************************************)
CivilFromDays(days) ==
    LET z == days + 719468
        era == z \div 146097
        doe == z - era * 146097
        yoe == (doe - (doe \div 1460) + (doe \div 36524) - (doe \div 146096)) \div 365
        doy == doe - (365 * yoe + (yoe \div 4) - (yoe \div 100))
        mp == (5 * doy + 2) \div 153
        d == doy - ((153 * mp + 2) \div 5) + 1
        m == IF mp < 10 THEN mp + 3 ELSE mp - 9
    IN  [year |-> yoe + era * 400 + (IF m <= 2 THEN 1 ELSE 0), month |-> m, date |-> d]

DaysFromCivil(y, m, d) ==
    LET yy == IF m <= 2 THEN y - 1 ELSE y
        era == yy \div 400
        yoe == yy - era * 400
        doy == ((153 * (IF m > 2 THEN m - 3 ELSE m + 9) + 2) \div 5) + d - 1
        doe == yoe * 365 + (yoe \div 4) - (yoe \div 100) + doy
    IN  era * 146097 + doe - 719468

\* String(n): the decimal digits of a non-negative integer, as character codes
RECURSIVE Digits(_)
Digits(n) == IF n < 10 THEN <<48 + n>> ELSE Digits(n \div 10) \o <<48 + (n % 10)>>

\* String(n).padStart(2, "0")
PadStart2(n) == IF Len(Digits(n)) < 2 THEN <<48>> \o Digits(n) ELSE Digits(n)

\* the number a run of decimal digits denotes
RECURSIVE ParseDigits(_)
ParseDigits(s) ==
    IF s = <<>> THEN 0
    ELSE 10 * ParseDigits(SubSeq(s, 1, Len(s) - 1)) + (s[Len(s)] - 48)

(***************************************************************************)
(* data/puzzleBank: the ordered bank; of each puzzle the id and the answer. *)
(***************************************************************************)
puzzleBank ==
    <<
       [id |-> "p001", answer |-> <<119, 104, 111, 108, 101, 115, 111, 109, 101>>],   \* wholesome
       [id |-> "p002", answer |-> <<110, 111, 115, 116, 97, 108, 103, 105, 97>>],   \* nostalgia
       [id |-> "p003", answer |-> <<99, 104, 97, 111, 115>>],   \* chaos
       [id |-> "p004", answer |-> <<112, 108, 111, 116, 116, 119, 105, 115, 116>>],   \* plottwist
       [id |-> "p005", answer |-> <<100, 101, 98, 97, 116, 101>>],   \* debate
       [id |-> "p006", answer |-> <<115, 112, 101, 101, 100, 114, 117, 110>>],   \* speedrun
       [id |-> "p007", answer |-> <<117, 110, 100, 101, 114, 114, 97, 116, 101, 100>>],   \* underrated
       [id |-> "p008", answer |-> <<99, 114, 105, 110, 103, 101>>],   \* cringe
       [id |-> "p009", answer |-> <<119, 104, 111, 100, 117, 110, 105, 116>>],   \* whodunit
       [id |-> "p010", answer |-> <<115, 116, 114, 101, 97, 107>>],   \* streak
       [id |-> "p011", answer |-> <<114, 101, 112, 111, 115, 116>>],   \* repost
       [id |-> "p012", answer |-> <<107, 97, 114, 109, 97>>],   \* karma
       [id |-> "p013", answer |-> <<114, 105, 99, 107, 114, 111, 108, 108>>],   \* rickroll
       [id |-> "p014", answer |-> <<109, 111, 100, 101, 114, 97, 116, 105, 111, 110>>],   \* moderation
       [id |-> "p015", answer |-> <<99, 111, 112, 121, 112, 97, 115, 116, 97>>],   \* copypasta
       [id |-> "p016", answer |-> <<116, 104, 114, 111, 119, 97, 119, 97, 121>>],   \* throwaway
       [id |-> "p017", answer |-> <<108, 117, 114, 107, 101, 114>>],   \* lurker
       [id |-> "p018", answer |-> <<99, 114, 111, 115, 115, 112, 111, 115, 116>>],   \* crosspost
       [id |-> "p019", answer |-> <<98, 97, 110, 97, 110, 97>>],   \* banana
       [id |-> "p020", answer |-> <<104, 105, 118, 101, 109, 105, 110, 100>>],   \* hivemind
       [id |-> "p021", answer |-> <<102, 108, 97, 105, 114>>],   \* flair
       [id |-> "p022", answer |-> <<116, 105, 102, 117>>],   \* tifu
       [id |-> "p023", answer |-> <<117, 112, 118, 111, 116, 101>>],   \* upvote
       [id |-> "p024", answer |-> <<114, 97, 98, 98, 105, 116, 32, 104, 111, 108, 101>>],   \* rabbit hole
       [id |-> "p025", answer |-> <<103, 111, 108, 100, 102, 105, 115, 104>>],   \* goldfish
       [id |-> "p026", answer |-> <<109, 101, 109, 101>>],   \* meme
       [id |-> "p027", answer |-> <<115, 117, 98, 114, 101, 100, 100, 105, 116>>],   \* subreddit
       [id |-> "p028", answer |-> <<102, 114, 111, 110, 116, 112, 97, 103, 101>>],   \* frontpage
       [id |-> "p029", answer |-> <<99, 97, 107, 101, 100, 97, 121>>],   \* cakeday
       [id |-> "p030", answer |-> <<115, 104, 105, 116, 112, 111, 115, 116>>],   \* shitpost
       [id |-> "p031", answer |-> <<100, 101, 101, 112, 102, 97, 107, 101>>],   \* deepfake
       [id |-> "p032", answer |-> <<103, 105, 108, 100, 101, 100>>],   \* gilded
       [id |-> "p033", answer |-> <<115, 97, 116, 105, 114, 101>>],   \* satire
       [id |-> "p034", answer |-> <<98, 111, 116>>],   \* bot
       [id |-> "p035", answer |-> <<97, 109, 97>>]    \* ama
    >>

(***************************************************************************)
(* core/dailyGameEngine                                                    *)
(***************************************************************************)
\* "http://", "https://", "discord.gg", "t.me/"
BLOCKED_TERMS ==
    << <<104, 116, 116, 112, 58, 47, 47>>,
       <<104, 116, 116, 112, 115, 58, 47, 47>>,
       <<100, 105, 115, 99, 111, 114, 100, 46, 103, 103>>,
       <<116, 46, 109, 101, 47>> >>

\* A faulty toUtcDayKey: getFullYear / getMonth / getDate, the local date, in a
\* zone one hour behind UTC.
toLocalDayKey(inputDate) ==
    LET c == CivilFromDays(IF inputDate.ms < 3600000 THEN inputDate.day - 1 ELSE inputDate.day)
    IN  Digits(c.year) \o <<45>> \o PadStart2(c.month) \o <<45>> \o PadStart2(c.date)

\* the 10 characters YYYY-MM-DD of the UTC date of an instant (45 is "-")
toUtcDayKey(inputDate) ==
    LET c == CivilFromDays(inputDate.day)
    IN  Digits(c.year) \o <<45>> \o PadStart2(c.month) \o <<45>> \o PadStart2(c.date)

\* FNV-1a: offset basis 2166136261 = 0x811C9DC5, prime 16777619 = 0x01000193
\* hash ^= charCode; hash = Math.imul(hash, 16777619)
FnvStep(hash, charCode) == Imul32(Xor32(hash, Word(charCode)), <<256, 403>>)

RECURSIVE FnvFold(_, _, _)
FnvFold(hash, dayKey, i) ==
    IF i > Len(dayKey) THEN hash
    ELSE CHOOSE r \in {FnvFold(h, dayKey, i + 1) : h \in {FnvStep(hash, dayKey[i])}} : TRUE

\* A faulty daySeed: FNV-1, which multiplies before it XORs.
RECURSIVE daySeedMultiplyFirst(_)
daySeedMultiplyFirst(dayKey) ==
    IF dayKey = <<>> THEN <<33052, 40389>>
    ELSE LET Step(hash) == Xor32(Imul32(hash, <<256, 403>>), Word(dayKey[Len(dayKey)]))
         IN  Apply(Step, daySeedMultiplyFirst(SubSeq(dayKey, 1, Len(dayKey) - 1)))

daySeed(dayKey) == FnvFold(<<33052, 40389>>, dayKey, 1)

\* mulberry32(seed): the generator's state is t, draws counts the calls of rng()
mulberry32(seed) == [t |-> seed, draws |-> 0]

\* one call of rng(): 0x6d2b79f5 = <<27947, 31221>>; value / 2^32 is the float returned
rngDraw(rng) ==
    LET Mix1(t) == Imul32(Xor32(t, Shr32(t, 15)), Or32(t, Word(1)))
        Mix2(v) == Xor32(v, Add32(v, Imul32(Xor32(v, Shr32(v, 7)), Or32(v, Word(61)))))
        Mix3(v) == Xor32(v, Shr32(v, 14))
        Draw(t) == [rng |-> [t |-> t, draws |-> rng.draws + 1],
                    value |-> Apply(Mix3, Apply(Mix2, Apply(Mix1, t)))]
    IN  Apply(Draw, Add32(rng.t, <<27947, 31221>>))

\* A faulty FloorScale: Math.round in place of Math.floor.
RoundScale(value, length) ==
    (value[1] * length + ((value[2] * length) \div HALF) + (HALF \div 2)) \div HALF

\* Math.floor((value / 2^32) * length), exact for length < 2^15
FloorScale(value, length) ==
    (value[1] * length + ((value[2] * length) \div HALF)) \div HALF

\* const rng = mulberry32(seed); const index = Math.floor(rng() * bank.length)
SelectIndex(seed, length) ==
    LET Pick(d) == [draw |-> d.value, index |-> FloorScale(d.value, length),
                    draws |-> d.rng.draws]
    IN  Apply(Pick, rngDraw(mulberry32(seed)))

\* A faulty pickDailyPuzzle: an empty bank is replaced by the built-in one.
pickDailyPuzzleAnyway(inputDate, bank) ==
    LET used == IF Len(bank) = 0 THEN puzzleBank ELSE bank
        Result(dayKey, seed, sel) ==
            [ok |-> TRUE, dayKey |-> dayKey, seed |-> seed, index |-> sel.index,
             puzzle |-> used[sel.index + 1], draws |-> sel.draws]
        Select(dayKey, seed) ==
            LET Finish(sel) == Result(dayKey, seed, sel)
            IN  Apply(Finish, SelectIndex(seed, Len(used)))
        Seed(dayKey) ==
            LET Continue(seed) == Select(dayKey, seed)
            IN  Apply(Continue, daySeed(dayKey))
    IN  Apply(Seed, toUtcDayKey(inputDate))

pickDailyPuzzle(inputDate, bank) ==
    IF Len(bank) = 0
    THEN [ok |-> FALSE, message |-> "Puzzle bank cannot be empty."]
    ELSE LET Result(dayKey, seed, sel) ==
                 [ok |-> TRUE, dayKey |-> dayKey, seed |-> seed, index |-> sel.index,
                  puzzle |-> bank[sel.index + 1], draws |-> sel.draws]
             Select(dayKey, seed) ==
                 LET Finish(sel) == Result(dayKey, seed, sel)
                 IN  Apply(Finish, SelectIndex(seed, Len(bank)))
             Seed(dayKey) ==
                 LET Continue(seed) == Select(dayKey, seed)
                 IN  Apply(Continue, daySeed(dayKey))
         IN  Apply(Seed, toUtcDayKey(inputDate))

\* String.prototype.toLowerCase on ASCII text
ToLowerCase(s) == [i \in 1..Len(s) |-> IF s[i] >= 65 /\ s[i] <= 90 THEN s[i] + 32 ELSE s[i]]

IsSpace(c) == c \in {9, 10, 11, 12, 13, 32}

RECURSIVE TrimStart(_)
TrimStart(s) == IF s # <<>> /\ IsSpace(s[1]) THEN TrimStart(Tail(s)) ELSE s

RECURSIVE TrimEnd(_)
TrimEnd(s) ==
    IF s # <<>> /\ IsSpace(s[Len(s)]) THEN TrimEnd(SubSeq(s, 1, Len(s) - 1)) ELSE s

\* String.prototype.trim
Trim(s) == TrimEnd(TrimStart(s))

\* the class [a-z0-9]
IsAlnum(c) == (c >= 97 /\ c <= 122) \/ (c >= 48 /\ c <= 57)

\* replace(/[^a-z0-9]/g, "")
StripNonAlnum(s) == SelectSeq(s, IsAlnum)

\* A faulty normalizeText: /[^a-z0-9 ]/g, which lets spaces through to trim.
normalizeTextKeepSpaces(value) ==
    LET IsAlnumOrSpace(c) == IsAlnum(c) \/ c = 32
    IN  Trim(SelectSeq(ToLowerCase(value), IsAlnumOrSpace))

normalizeText(value) == Trim(StripNonAlnum(ToLowerCase(value)))

\* String.prototype.includes
Includes(s, t) == \E i \in 1..(Len(s) - Len(t) + 1) : SubSeq(s, i, i + Len(t) - 1) = t

evaluateGuess(guess, answer) ==
    LET normalizedGuess == normalizeText(guess)
        normalizedAnswer == normalizeText(answer)
    IN  [normalizedGuess |-> normalizedGuess,
         normalizedAnswer |-> normalizedAnswer,
         correct |-> Len(normalizedGuess) > 0 /\ normalizedGuess = normalizedAnswer]

Max(a, b) == IF a >= b THEN a ELSE b

Min(a, b) == IF a <= b THEN a ELSE b

\* Math.floor(x / d) for integers x and d > 0
FloorDiv(x, d) == IF x >= 0 THEN x \div d ELSE -((-x + d - 1) \div d)

\* A faulty computeScore: the time penalty rounded, not floored.
computeScoreRounded(correct, hintsUsed, timeSeconds, streakDays) ==
    IF ~correct THEN 0
    ELSE LET hintPenalty == Max(0, hintsUsed - 1) * 15
             timePenalty == Min(35, FloorDiv(Max(0, timeSeconds) + 3, 6))
             streakBonus == Min(25, FloorDiv(Max(0, streakDays), 2))
         IN  Max(5, 100 - hintPenalty - timePenalty + streakBonus)

\* A faulty computeScore: the time penalty without its cap of 35.
computeScoreNoTimeCap(correct, hintsUsed, timeSeconds, streakDays) ==
    IF ~correct THEN 0
    ELSE LET hintPenalty == Max(0, hintsUsed - 1) * 15
             timePenalty == FloorDiv(Max(0, timeSeconds), 6)
             streakBonus == Min(25, FloorDiv(Max(0, streakDays), 2))
         IN  Max(5, 100 - hintPenalty - timePenalty + streakBonus)

\* A faulty computeScore: the first hint is charged too.
computeScoreFirstHintCosts(correct, hintsUsed, timeSeconds, streakDays) ==
    IF ~correct THEN 0
    ELSE LET hintPenalty == Max(0, hintsUsed) * 15
             timePenalty == Min(35, FloorDiv(Max(0, timeSeconds), 6))
             streakBonus == Min(25, FloorDiv(Max(0, streakDays), 2))
         IN  Max(5, 100 - hintPenalty - timePenalty + streakBonus)

\* A faulty computeScore: the closing Math.max(5, ...) forgotten.
computeScoreNoFloor(correct, hintsUsed, timeSeconds, streakDays) ==
    IF ~correct THEN 0
    ELSE LET hintPenalty == Max(0, hintsUsed - 1) * 15
             timePenalty == Min(35, FloorDiv(Max(0, timeSeconds), 6))
             streakBonus == Min(25, FloorDiv(Max(0, streakDays), 2))
         IN  100 - hintPenalty - timePenalty + streakBonus

computeScore(correct, hintsUsed, timeSeconds, streakDays) ==
    IF ~correct THEN 0
    ELSE LET baseScore == 100
             hintPenalty == Max(0, hintsUsed - 1) * 15
             timePenalty == Min(35, FloorDiv(Max(0, timeSeconds), 6))
             streakBonus == Min(25, FloorDiv(Max(0, streakDays), 2))
         IN  Max(5, baseScore - hintPenalty - timePenalty + streakBonus)

\* A faulty validateCommunityClue: the link rule applied before the length rules.
validateCommunityClueLinkFirst(text, forbiddenWords, existingClues) ==
    LET raw == Trim(text)
        lower == ToLowerCase(raw)
        normalizedRaw == normalizeText(raw)
    IN  IF \E k \in 1..Len(BLOCKED_TERMS) : Includes(lower, BLOCKED_TERMS[k])
        THEN [valid |-> FALSE, reason |-> "Links are not allowed in clues."]
        ELSE IF Len(raw) < 8
        THEN [valid |-> FALSE, reason |-> "Clue must be at least 8 characters."]
        ELSE IF Len(raw) > 180
        THEN [valid |-> FALSE, reason |-> "Clue must be 180 characters or fewer."]
        ELSE IF \E k \in 1..Len(forbiddenWords) :
                   /\ normalizeText(forbiddenWords[k]) # <<>>
                   /\ Includes(normalizedRaw, normalizeText(forbiddenWords[k]))
        THEN [valid |-> FALSE, reason |-> "Clue cannot contain the answer."]
        ELSE IF \E k \in 1..Len(existingClues) : normalizeText(existingClues[k]) = normalizedRaw
        THEN [valid |-> FALSE, reason |-> "This clue already exists for today."]
        ELSE [valid |-> TRUE, reason |-> "ok"]

\* options default to no forbidden words and no existing clues
validateCommunityClue(text, forbiddenWords, existingClues) ==
    LET raw == Trim(text)
        lower == ToLowerCase(raw)
        normalizedRaw == normalizeText(raw)
    IN  IF Len(raw) < 8
        THEN [valid |-> FALSE, reason |-> "Clue must be at least 8 characters."]
        ELSE IF Len(raw) > 180
        THEN [valid |-> FALSE, reason |-> "Clue must be 180 characters or fewer."]
        ELSE IF \E k \in 1..Len(BLOCKED_TERMS) : Includes(lower, BLOCKED_TERMS[k])
        THEN [valid |-> FALSE, reason |-> "Links are not allowed in clues."]
        ELSE IF \E k \in 1..Len(forbiddenWords) :
                   /\ normalizeText(forbiddenWords[k]) # <<>>
                   /\ Includes(normalizedRaw, normalizeText(forbiddenWords[k]))
        THEN [valid |-> FALSE, reason |-> "Clue cannot contain the answer."]
        ELSE IF \E k \in 1..Len(existingClues) : normalizeText(existingClues[k]) = normalizedRaw
        THEN [valid |-> FALSE, reason |-> "This clue already exists for today."]
        ELSE [valid |-> TRUE, reason |-> "ok"]

\* the instant a Date holds, as one comparable pair; anything else counts as 0
ClueTime(c) == IF c.createdAt.isDate THEN <<c.createdAt.at.day, c.createdAt.at.ms>> ELSE <<0, 0>>

\* the sort callback: negative when a goes first, positive when b goes first
ClueCompare(a, b) ==
    LET scoreA == a.upvotes + a.modBoost * 3
        scoreB == b.upvotes + b.modBoost * 3
        dateA == ClueTime(a)
        dateB == ClueTime(b)
    IN  IF scoreA # scoreB THEN scoreB - scoreA
        ELSE IF dateB[1] # dateA[1] THEN dateB[1] - dateA[1]
        ELSE dateB[2] - dateA[2]

\* Array.prototype.sort is stable: an element goes after those it does not precede
RECURSIVE InsertSorted(_, _)
InsertSorted(sorted, c) ==
    IF sorted = <<>> THEN <<c>>
    ELSE IF ClueCompare(sorted[Len(sorted)], c) <= 0 THEN Append(sorted, c)
    ELSE Append(InsertSorted(SubSeq(sorted, 1, Len(sorted) - 1), c), sorted[Len(sorted)])

RECURSIVE SortClues(_)
SortClues(clues) ==
    IF clues = <<>> THEN <<>>
    ELSE InsertSorted(SortClues(SubSeq(clues, 1, Len(clues) - 1)), clues[Len(clues)])

ClueIsValid(c) == validateCommunityClue(c.text, <<>>, <<>>).valid

rankCommunityClues(clues, limit) ==
    LET sorted == SortClues(SelectSeq(clues, ClueIsValid))
    IN  SubSeq(sorted, 1, Min(limit, Len(sorted)))

(***************************************************************************)
(* hooks/useGameStore: the session store.                                  *)
(*                                                                         *)
(* localStorage holds two JSON documents; an absent key is <<>>, a present *)
(* one <<document>>.  A Date written through JSON.stringify comes back as  *)
(* a string, no longer a Date.  Fields the store writes and nothing reads  *)
(* are left out: timestamp and hintsUsed of a guess, timeCompleted, and id *)
(* and aiAnalysis of a clue.  Every access to localStorage is inside a     *)
(* try block: while storage.readable is false getItem or JSON.parse        *)
(* throws, while storage.writable is false setItem throws.                 *)
(***************************************************************************)
MAX_GUESSES == 6

VARIABLES
    bank,          \* the puzzle bank the engine was loaded with
    currentGame,   \* useState: the game, or NoGame before the first refresh
    rendered,      \* the currentGame of the last render, which the callbacks closed over
    isLoading,     \* useState
    error,         \* useState: the message shown, or NoError
    storage,       \* localStorage: [streak, clues], and whether reads and writes succeed
    now,           \* the wall clock
    scenario,      \* which inputs the environment offers in this run
    lastCall,      \* the last operation called and what it returned
    prevCompletedRef,  \* App: useRef(false), set when the end of a game was seen
    posted,        \* what this page has sent to the host with postMessage
    args,          \* a pure function's arguments ...
    result,        \* ... and what it returned for them
    prevArgs,      \* the call before
    prevResult

vars == <<bank, currentGame, rendered, isLoading, error, storage, now, scenario, lastCall,
          prevCompletedRef, posted,
          args, result, prevArgs, prevResult>>

sessionVars == <<bank, currentGame, rendered, isLoading, error, storage, now, scenario, lastCall,
                 prevCompletedRef, posted>>

pureVars == <<args, result, prevArgs, prevResult>>

appVars == <<prevCompletedRef, posted>>

NoGame == [loaded |-> FALSE]

NoError == "null"

NoCall == [op |-> "none", ret |-> "void"]

Idle == [fn |-> "none"]

buildInitialPlayerState ==
    [guesses |-> <<>>, hintsUnlocked |-> 1, score |-> 0, completed |-> FALSE,
     timeStarted |-> now, streak |-> 0]

buildPuzzleModel(rawPuzzle) == [id |-> rawPuzzle.id, answer |-> rawPuzzle.answer]

getStreak ==
    IF ~storage.readable THEN 0
    ELSE IF storage.streak = <<>> THEN 0 ELSE storage.streak[1].streakDays

\* lastSolvedDay is <<>> for null, <<dayKey>> for a day
getStreakState ==
    IF ~storage.readable THEN [lastSolvedDay |-> <<>>, streakDays |-> 0]
    ELSE IF storage.streak = <<>> THEN [lastSolvedDay |-> <<>>, streakDays |-> 0]
    ELSE [lastSolvedDay |-> <<storage.streak[1].lastSolvedDay>>,
          streakDays |-> storage.streak[1].streakDays]

\* A faulty shiftUtcDay: the day of the month shifted in place, with no carry
\* into the month.
shiftUtcDayNoCarry(dayKey, days) ==
    SubSeq(dayKey, 1, Len(dayKey) - 2)
    \o PadStart2(Max(0, ParseDigits(SubSeq(dayKey, Len(dayKey) - 1, Len(dayKey))) + days))

\* new Date(`${dayKey}T00:00:00Z`); setUTCDate(getUTCDate() + days); toUtcDayKey
shiftUtcDay(dayKey, days) ==
    LET d == DaysFromCivil(ParseDigits(SubSeq(dayKey, 1, Len(dayKey) - 6)),
                           ParseDigits(SubSeq(dayKey, Len(dayKey) - 4, Len(dayKey) - 3)),
                           ParseDigits(SubSeq(dayKey, Len(dayKey) - 1, Len(dayKey))))
    IN  toUtcDayKey([day |-> d + days, ms |-> 0])

\* A faulty updateStreak: when the record cannot be written the streak it had
\* read is returned, not the new one.
updateStreakIfWritten(dayKey) ==
    LET streak == getStreakState
        yesterday == shiftUtcDay(dayKey, -1)
        next == [lastSolvedDay |-> dayKey,
                 streakDays |-> IF streak.lastSolvedDay = <<yesterday>>
                                THEN streak.streakDays + 1 ELSE 1]
    IN  IF streak.lastSolvedDay = <<dayKey>>
        THEN [stored |-> storage.streak, value |-> streak.streakDays]
        ELSE IF storage.writable
        THEN [stored |-> <<next>>, value |-> next.streakDays]
        ELSE [stored |-> storage.streak, value |-> streak.streakDays]

\* what updateStreak leaves in localStorage.streak, and what it returns
updateStreak(dayKey) ==
    LET streak == getStreakState
        yesterday == shiftUtcDay(dayKey, -1)
        next == [lastSolvedDay |-> dayKey,
                 streakDays |-> IF streak.lastSolvedDay = <<yesterday>>
                                THEN streak.streakDays + 1 ELSE 1]
    IN  IF streak.lastSolvedDay = <<dayKey>>
        THEN [stored |-> storage.streak, value |-> streak.streakDays]
        ELSE [stored |-> IF storage.writable THEN <<next>> ELSE storage.streak,
              value |-> next.streakDays]

\* JSON.parse(JSON.stringify(clue))
JsonClue(c) == [c EXCEPT !.createdAt = [isDate |-> FALSE, at |-> c.createdAt.at]]

\* A faulty getStoredClues: reads parsed.clues, a key the document never has.
getStoredCluesUnkeyed(dayKey) == <<>>

getStoredClues(dayKey) ==
    IF ~storage.readable THEN <<>>
    ELSE IF storage.clues = <<>> THEN <<>>
    ELSE IF dayKey \in DOMAIN storage.clues[1] THEN storage.clues[1][dayKey]
    ELSE <<>>

\* what saveStoredClues leaves in localStorage.clues
saveStoredClues(dayKey, clues) ==
    LET parsed == IF storage.clues = <<>> THEN <<>> ELSE storage.clues[1]
        written == [i \in 1..Len(clues) |-> JsonClue(clues[i])]
    IN  IF ~storage.readable \/ ~storage.writable THEN storage.clues
        ELSE <<[k \in (DOMAIN parsed) \cup {dayKey} |->
                   IF k = dayKey THEN written ELSE parsed[k]]>>

(***************************************************************************)
(* The environment: the clock and what the player types.  A run follows    *)
(* one of three scenarios, which differ in the inputs offered and in       *)
(* nothing else; every operation of the store can be called in each.       *)
(*   "play"   a long round: all the wrong words, the answer in two         *)
(*            spellings, clues the validator rejects; PlayDays days,       *)
(*            two instants a day                                           *)
(*   "streak" MaxDays days, one instant a day; one wrong word, the answer  *)
(*   "clues"  ClueDays days, one instant a day; one wrong word, the        *)
(*            answer, and clues the validator accepts too                  *)
(*   "lapse"  LapseDays days, one instant a day, enough for a run of       *)
(*            solved days, a day missed and a day played; the answer, and  *)
(*            a clue that is too short                                     *)
(* and, where storage can fail,                                            *)
(*   "faults" one instant; one wrong word, the answer, one clue that is    *)
(*            accepted and one that is too short                           *)
(* and, where calls are made faster than the component renders,            *)
(*   "race"   one instant; two wrong words and the answer                  *)
(* and, for the page that shows the game and reports to its host,          *)
(*   "app"    AppDays days; the answer and the wrong words; two clues      *)
(***************************************************************************)
FirstDay == 20511      \* 2026-02-27, so that the days cross the end of February

PlayDays == 1

MaxDays == 3

ClueDays == 2

LapseDays == 4

AppDays == 2

NumWrong == 7

Scenarios == {"play", "streak", "clues"}

DaysOf(sc) ==
    IF sc = "play" THEN PlayDays
    ELSE IF sc = "streak" THEN MaxDays
    ELSE IF sc = "lapse" THEN LapseDays
    ELSE IF sc = "app" THEN AppDays
    ELSE ClueDays

\* 00:00:01, and in a long round 00:00:07.5 too
TimesOfDay(sc) == IF sc = "play" THEN {1000, 7500} ELSE {1000}

Instants(sc) ==
    {[day |-> d, ms |-> m] : d \in FirstDay..(FirstDay + DaysOf(sc) - 1), m \in TimesOfDay(sc)}

Later(t, u) == t.day > u.day \/ (t.day = u.day /\ t.ms > u.ms)

ToUpperCase(s) == [i \in 1..Len(s) |-> IF s[i] >= 97 /\ s[i] <= 122 THEN s[i] - 32 ELSE s[i]]

\* " KARMA!" for karma: the answer in another case, padded and punctuated
Decorated(answer) == <<32>> \o ToUpperCase(answer) \o <<33>>

Blank == <<63, 33>>                     \* "?!": normalizes to the empty text

\* "w1", the blank, "w3", "w4", ...
WrongWord(i) == IF i = 2 THEN Blank ELSE <<119, 48 + i>>

WrongVariant(i) == <<87, 45, 48 + i>>   \* "W-1": w1 in another case, punctuated

\* how many of the wrong words have been tried, in whatever spelling
WrongTried(guesses) ==
    Cardinality({i \in 1..NumWrong :
                    \E k \in 1..Len(guesses) : normalizeText(guesses[k].text) = normalizeText(WrongWord(i))})

\* What the player may type.  The wrong words are interchangeable (the store
\* reads a guess through its normalized text and its equality with the answer
\* only), so a word not tried yet is typed in list order; every word tried
\* already, the first word's other spelling and the answer in two spellings
\* may be typed at any time.
GuessTexts ==
    IF ~currentGame.loaded THEN {WrongWord(1)}
    ELSE IF scenario = "play"
    THEN {currentGame.puzzle.answer, Decorated(currentGame.puzzle.answer), WrongVariant(1)}
         \cup {WrongWord(i) :
                  i \in 1..Min(NumWrong, WrongTried(currentGame.playerState.guesses) + 1)}
    ELSE IF scenario = "lapse" THEN {currentGame.puzzle.answer}
    ELSE IF scenario = "app"
    THEN {currentGame.puzzle.answer}
         \cup {WrongWord(i) :
                  i \in 1..Min(NumWrong, WrongTried(currentGame.playerState.guesses) + 1)}
    ELSE {currentGame.puzzle.answer, WrongWord(1)}

GoodClue == <<97, 32, 118, 105, 118, 105, 100, 32, 99, 108, 117, 101>>   \* "a vivid clue"

ShortClue == <<116, 111, 111, 32, 102, 101, 119>>   \* "too few"

LinkClue ==    \* "see https://x.io now"
    <<115, 101, 101, 32, 104, 116, 116, 112, 115, 58, 47, 47, 120, 46, 105, 111, 32, 110, 111, 119>>

\* "the word " and then the answer, decorated
AnswerClue(answer) == <<116, 104, 101, 32, 119, 111, 114, 100, 32>> \o Decorated(answer)

ClueTexts ==
    IF scenario = "lapse" THEN {ShortClue}
    ELSE IF scenario \in {"faults", "race", "app"} THEN {ShortClue, GoodClue}
    ELSE {ShortClue, LinkClue}
         \cup (IF currentGame.loaded THEN {AnswerClue(currentGame.puzzle.answer)} ELSE {})
         \cup (IF scenario = "clues" THEN {GoodClue} ELSE {})

(***************************************************************************)
(* The operations of the store, each one whole.                            *)
(***************************************************************************)
Init ==
    /\ bank = puzzleBank
    /\ currentGame = NoGame
    /\ rendered = NoGame
    /\ prevCompletedRef = FALSE
    /\ posted = <<>>
    /\ isLoading = FALSE
    /\ error = NoError
    /\ storage = [streak |-> <<>>, clues |-> <<>>, readable |-> TRUE, writable |-> TRUE]
    /\ now = [day |-> FirstDay, ms |-> 1000]
    /\ scenario \in Scenarios
    /\ lastCall = NoCall
    /\ args = Idle
    /\ result = Idle
    /\ prevArgs = Idle
    /\ prevResult = Idle

Tick ==
    /\ \E t \in Instants(scenario) : Later(t, now) /\ now' = t
    /\ UNCHANGED <<bank, currentGame, rendered, isLoading, error, storage, scenario, lastCall>>
    /\ UNCHANGED pureVars
    /\ UNCHANGED appVars

refreshGame ==
    LET daily == pickDailyPuzzle(now, bank)
    IN  /\ IF daily.ok
           THEN /\ currentGame' =
                       [loaded |-> TRUE,
                        dayKey |-> daily.dayKey,
                        puzzle |-> buildPuzzleModel(daily.puzzle),
                        playerState |-> [buildInitialPlayerState EXCEPT !.streak = getStreak],
                        communityClues |-> getStoredClues(daily.dayKey)]
                /\ error' = NoError
           ELSE /\ currentGame' = currentGame
                /\ error' = daily.message
        /\ isLoading' = FALSE
        /\ lastCall' = [op |-> "refreshGame", ret |-> "void"]
        /\ UNCHANGED <<bank, storage, now, scenario>>
        /\ UNCHANGED pureVars
        /\ UNCHANGED appVars
        /\ rendered' = currentGame'

\* Math.max(1, Math.round((Date.now() - startedAt.getTime()) / 1000))
ElapsedSeconds(startedAt) ==
    LET elapsedMs == (now.day - startedAt.day) * 86400000 + (now.ms - startedAt.ms)
    IN  Max(1, FloorDiv(elapsedMs + 500, 1000))

GuessReturn(ret) == [op |-> "submitGuess", ret |-> ret]

\* A faulty NoGuessesLeft: the count is not looked at.
NoGuessesLeftNever(ps) == FALSE

\* A faulty NoGuessesLeft: > in place of >=.
NoGuessesLeftLate(ps) == Len(ps.guesses) > MAX_GUESSES

\* currentGame.playerState.guesses.length >= MAX_GUESSES
NoGuessesLeft(ps) == Len(ps.guesses) >= MAX_GUESSES

\* A faulty alreadyTried: the texts compared as typed.
alreadyTriedExact(ps, guess) == \E k \in 1..Len(ps.guesses) : ps.guesses[k].text = guess

\* the guess, normalized, is the normalized text of a guess made before
alreadyTried(ps, guess) ==
    LET normalizedGuess == Trim(StripNonAlnum(ToLowerCase(guess)))
    IN  \E k \in 1..Len(ps.guesses) :
            Trim(StripNonAlnum(ToLowerCase(ps.guesses[k].text))) = normalizedGuess

\* A faulty submitGuess: the new guess is put before the earlier ones.
submitGuessPrepend(game, guess) ==
    LET ps == game.playerState
        evaluation == evaluateGuess(guess, game.puzzle.answer)
        timeSeconds == ElapsedSeconds(ps.timeStarted)
        nextScore == computeScore(evaluation.correct, ps.hintsUnlocked, timeSeconds, ps.streak)
        newGuess == [text |-> guess, correct |-> evaluation.correct]
        streakUpdate == updateStreak(game.dayKey)
        nextStreak == IF evaluation.correct THEN streakUpdate.value ELSE ps.streak
        guessesLeft == MAX_GUESSES - (Len(ps.guesses) + 1)
    IN  /\ isLoading' = isLoading
        /\ UNCHANGED <<bank, now, scenario>>
        /\ UNCHANGED pureVars
        /\ UNCHANGED appVars
        /\ IF ~game.loaded \/ ps.completed
           THEN /\ lastCall' = GuessReturn("false")
                /\ UNCHANGED <<currentGame, error, storage>>
           ELSE IF NoGuessesLeft(ps)
           THEN /\ error' = "No guesses remaining for today."
                /\ lastCall' = GuessReturn("false")
                /\ UNCHANGED <<currentGame, storage>>
           ELSE IF alreadyTried(ps, guess)
           THEN /\ error' = "You already tried that guess."
                /\ lastCall' = GuessReturn("false")
                /\ UNCHANGED <<currentGame, storage>>
           ELSE /\ storage' = IF evaluation.correct
                              THEN [storage EXCEPT !.streak = streakUpdate.stored]
                              ELSE storage
                /\ currentGame' =
                       [game EXCEPT !.playerState =
                           [ps EXCEPT !.guesses = <<newGuess>> \o ps.guesses,
                                      !.completed = evaluation.correct,
                                      !.score = nextScore,
                                      !.streak = nextStreak]]
                /\ error' = IF evaluation.correct THEN NoError
                            ELSE IF Len(ps.guesses) + 1 >= MAX_GUESSES
                            THEN "Round complete. Try again on the next daily puzzle."
                            ELSE <<"Not correct yet.", guessesLeft, "guesses left.">>
                /\ lastCall' = GuessReturn(IF evaluation.correct THEN "true" ELSE "false")

\* A faulty submitGuess: updateStreak is called for every accepted guess.
submitGuessAlwaysStreak(game, guess) ==
    LET ps == game.playerState
        evaluation == evaluateGuess(guess, game.puzzle.answer)
        timeSeconds == ElapsedSeconds(ps.timeStarted)
        nextScore == computeScore(evaluation.correct, ps.hintsUnlocked, timeSeconds, ps.streak)
        newGuess == [text |-> guess, correct |-> evaluation.correct]
        streakUpdate == updateStreak(game.dayKey)
        nextStreak == streakUpdate.value
        guessesLeft == MAX_GUESSES - (Len(ps.guesses) + 1)
    IN  /\ isLoading' = isLoading
        /\ UNCHANGED <<bank, now, scenario>>
        /\ UNCHANGED pureVars
        /\ UNCHANGED appVars
        /\ IF ~game.loaded \/ ps.completed
           THEN /\ lastCall' = GuessReturn("false")
                /\ UNCHANGED <<currentGame, error, storage>>
           ELSE IF NoGuessesLeft(ps)
           THEN /\ error' = "No guesses remaining for today."
                /\ lastCall' = GuessReturn("false")
                /\ UNCHANGED <<currentGame, storage>>
           ELSE IF alreadyTried(ps, guess)
           THEN /\ error' = "You already tried that guess."
                /\ lastCall' = GuessReturn("false")
                /\ UNCHANGED <<currentGame, storage>>
           ELSE /\ storage' = [storage EXCEPT !.streak = streakUpdate.stored]
                /\ currentGame' =
                       [game EXCEPT !.playerState =
                           [ps EXCEPT !.guesses = Append(ps.guesses, newGuess),
                                      !.completed = evaluation.correct,
                                      !.score = nextScore,
                                      !.streak = nextStreak]]
                /\ error' = IF evaluation.correct THEN NoError
                            ELSE IF Len(ps.guesses) + 1 >= MAX_GUESSES
                            THEN "Round complete. Try again on the next daily puzzle."
                            ELSE <<"Not correct yet.", guessesLeft, "guesses left.">>
                /\ lastCall' = GuessReturn(IF evaluation.correct THEN "true" ELSE "false")

\* the submitGuess callback of the render that saw game: it reads game, and what it
\* passes to setCurrentGame replaces currentGame
submitGuessFrom(game, guess) ==
    LET ps == game.playerState
        evaluation == evaluateGuess(guess, game.puzzle.answer)
        timeSeconds == ElapsedSeconds(ps.timeStarted)
        nextScore == computeScore(evaluation.correct, ps.hintsUnlocked, timeSeconds, ps.streak)
        newGuess == [text |-> guess, correct |-> evaluation.correct]
        streakUpdate == updateStreak(game.dayKey)
        nextStreak == IF evaluation.correct THEN streakUpdate.value ELSE ps.streak
        guessesLeft == MAX_GUESSES - (Len(ps.guesses) + 1)
    IN  /\ isLoading' = isLoading
        /\ UNCHANGED <<bank, now, scenario>>
        /\ UNCHANGED pureVars
        /\ UNCHANGED appVars
        /\ IF ~game.loaded \/ ps.completed
           THEN /\ lastCall' = GuessReturn("false")
                /\ UNCHANGED <<currentGame, error, storage>>
           ELSE IF NoGuessesLeft(ps)
           THEN /\ error' = "No guesses remaining for today."
                /\ lastCall' = GuessReturn("false")
                /\ UNCHANGED <<currentGame, storage>>
           ELSE IF alreadyTried(ps, guess)
           THEN /\ error' = "You already tried that guess."
                /\ lastCall' = GuessReturn("false")
                /\ UNCHANGED <<currentGame, storage>>
           ELSE /\ storage' = IF evaluation.correct
                              THEN [storage EXCEPT !.streak = streakUpdate.stored]
                              ELSE storage
                /\ currentGame' =
                       [game EXCEPT !.playerState =
                           [ps EXCEPT !.guesses = Append(ps.guesses, newGuess),
                                      !.completed = evaluation.correct,
                                      !.score = nextScore,
                                      !.streak = nextStreak]]
                /\ error' = IF evaluation.correct THEN NoError
                            ELSE IF Len(ps.guesses) + 1 >= MAX_GUESSES
                            THEN "Round complete. Try again on the next daily puzzle."
                            ELSE <<"Not correct yet.", guessesLeft, "guesses left.">>
                /\ lastCall' = GuessReturn(IF evaluation.correct THEN "true" ELSE "false")

\* submitGuess is called, and the component renders again before the next call
submitGuess(guess) == submitGuessFrom(rendered, guess) /\ rendered' = currentGame'

\* A faulty unlockHint: a completed day is not checked for.
unlockHintWhenCompleted(game) ==
    LET ps == game.playerState
        nextHints == Min(3, ps.hintsUnlocked + 1)
    IN  /\ lastCall' = [op |-> "unlockHint", ret |-> "void"]
        /\ UNCHANGED <<bank, isLoading, error, storage, now, scenario>>
        /\ UNCHANGED pureVars
        /\ UNCHANGED appVars
        /\ IF ~game.loaded
           THEN UNCHANGED currentGame
           ELSE IF nextHints = ps.hintsUnlocked
           THEN UNCHANGED currentGame
           ELSE currentGame' = [game EXCEPT !.playerState.hintsUnlocked = nextHints]

unlockHintFrom(game) ==
    LET ps == game.playerState
        nextHints == Min(3, ps.hintsUnlocked + 1)
    IN  /\ lastCall' = [op |-> "unlockHint", ret |-> "void"]
        /\ UNCHANGED <<bank, isLoading, error, storage, now, scenario>>
        /\ UNCHANGED pureVars
        /\ UNCHANGED appVars
        /\ IF ~game.loaded \/ ps.completed
           THEN UNCHANGED currentGame
           ELSE IF nextHints = ps.hintsUnlocked
           THEN UNCHANGED currentGame
           ELSE currentGame' = [game EXCEPT !.playerState.hintsUnlocked = nextHints]

unlockHint == unlockHintFrom(rendered) /\ rendered' = currentGame'

ClueReturn(ret) == [op |-> "submitClue", ret |-> ret]

\* currentGame.communityClues.some((item) => item.author === "local-player")
HasLocalClue(clues) == \E k \in 1..Len(clues) : clues[k].author = "local-player"

\* A faulty submitClue: the clues are saved as they were before the new one.
submitClueSavesOld(game, clue) ==
    LET clues == game.communityClues
        validation == validateCommunityClue(clue, <<game.puzzle.answer>>,
                                            [i \in 1..Len(clues) |-> clues[i].text])
        nextClue == [text |-> Trim(clue),
                    author |-> "local-player",
                    upvotes |-> 1,
                    modBoost |-> 0,
                    approved |-> TRUE,
                    createdAt |-> [isDate |-> TRUE, at |-> now]]
        ranked == rankCommunityClues(Append(clues, nextClue), 5)
    IN  /\ UNCHANGED <<bank, isLoading, now, scenario>>
        /\ UNCHANGED pureVars
        /\ UNCHANGED appVars
        /\ IF ~game.loaded
           THEN /\ lastCall' = ClueReturn("false")
                /\ UNCHANGED <<currentGame, error, storage>>
           ELSE IF HasLocalClue(clues)
           THEN /\ error' = "You already submitted a clue for today."
                /\ lastCall' = ClueReturn("false")
                /\ UNCHANGED <<currentGame, storage>>
           ELSE IF ~validation.valid
           THEN /\ error' = validation.reason
                /\ lastCall' = ClueReturn("false")
                /\ UNCHANGED <<currentGame, storage>>
           ELSE /\ storage' = [storage EXCEPT !.clues = saveStoredClues(game.dayKey, clues)]
                /\ currentGame' = [game EXCEPT !.communityClues = ranked]
                /\ error' = NoError
                /\ lastCall' = ClueReturn("true")

submitClueFrom(game, clue) ==
    LET clues == game.communityClues
        validation == validateCommunityClue(clue, <<game.puzzle.answer>>,
                                            [i \in 1..Len(clues) |-> clues[i].text])
        nextClue == [text |-> Trim(clue),
                    author |-> "local-player",
                    upvotes |-> 1,
                    modBoost |-> 0,
                    approved |-> TRUE,
                    createdAt |-> [isDate |-> TRUE, at |-> now]]
        ranked == rankCommunityClues(Append(clues, nextClue), 5)
    IN  /\ UNCHANGED <<bank, isLoading, now, scenario>>
        /\ UNCHANGED pureVars
        /\ UNCHANGED appVars
        /\ IF ~game.loaded
           THEN /\ lastCall' = ClueReturn("false")
                /\ UNCHANGED <<currentGame, error, storage>>
           ELSE IF HasLocalClue(clues)
           THEN /\ error' = "You already submitted a clue for today."
                /\ lastCall' = ClueReturn("false")
                /\ UNCHANGED <<currentGame, storage>>
           ELSE IF ~validation.valid
           THEN /\ error' = validation.reason
                /\ lastCall' = ClueReturn("false")
                /\ UNCHANGED <<currentGame, storage>>
           ELSE /\ storage' = [storage EXCEPT !.clues = saveStoredClues(game.dayKey, ranked)]
                /\ currentGame' = [game EXCEPT !.communityClues = ranked]
                /\ error' = NoError
                /\ lastCall' = ClueReturn("true")

submitClue(clue) == submitClueFrom(rendered, clue) /\ rendered' = currentGame'

Guess == \E guess \in GuessTexts : submitGuess(guess)

Clue == \E clue \in ClueTexts : submitClue(clue)

Next ==
    \/ Tick
    \/ refreshGame
    \/ Guess
    \/ unlockHint
    \/ Clue

Spec == Init /\ [][Next]_vars

(***************************************************************************)
(* The pure functions of the engine, each applied to arguments drawn from  *)
(* a bounded set: Init draws the arguments, the action applies the         *)
(* function.                                                               *)
(***************************************************************************)
InitSession ==
    /\ bank = puzzleBank
    /\ currentGame = NoGame
    /\ rendered = NoGame
    /\ prevCompletedRef = FALSE
    /\ posted = <<>>
    /\ isLoading = FALSE
    /\ error = NoError
    /\ storage = [streak |-> <<>>, clues |-> <<>>, readable |-> TRUE, writable |-> TRUE]
    /\ now = [day |-> FirstDay, ms |-> 1000]
    /\ scenario = "play"
    /\ lastCall = NoCall

PickSpan == 1

\* 2026-02-04 and 2026-12-31, and the PickSpan days after each
PickDays == UNION {d..(d + PickSpan) : d \in {20488, 20818}}

\* 00:00:00.000, 00:00:01, 23:59:59
PickTimes == {0, 1000, 86399000}

PickInstants == {[day |-> d, ms |-> m] : d \in PickDays, m \in PickTimes}

PickBanks == {puzzleBank, SubSeq(puzzleBank, 1, 7), <<>>}

PickArgs == {[fn |-> "pickDailyPuzzle", inputDate |-> t, bank |-> b] : t \in PickInstants, b \in PickBanks}

InitPick ==
    /\ InitSession
    /\ prevArgs \in PickArgs
    /\ args \in PickArgs
    /\ prevResult = Idle
    /\ result = Idle

PickFirst ==
    /\ prevResult = Idle
    /\ prevResult' = pickDailyPuzzle(prevArgs.inputDate, prevArgs.bank)
    /\ UNCHANGED <<args, result, prevArgs>>
    /\ UNCHANGED sessionVars

PickSecond ==
    /\ prevResult # Idle
    /\ result = Idle
    /\ result' = pickDailyPuzzle(args.inputDate, args.bank)
    /\ UNCHANGED <<args, prevArgs, prevResult>>
    /\ UNCHANGED sessionVars

NextPick ==
    \/ PickFirst
    \/ PickSecond

SpecPick == InitPick /\ [][NextPick]_vars

MaxBankLen == 35

SelectSeeds ==
    {<<0, 0>>, <<0, 1>>, <<0, 12345>>, <<32767, 65535>>, <<32768, 0>>, <<65535, 65535>>}
    \cup {daySeed(toUtcDayKey([day |-> d, ms |-> 0])) : d \in PickDays}

InitSelect ==
    /\ InitSession
    /\ args \in {[fn |-> "SelectIndex", seed |-> s, length |-> n] :
                    s \in SelectSeeds, n \in 1..MaxBankLen}
    /\ result = Idle
    /\ prevArgs = Idle
    /\ prevResult = Idle

SelectCall ==
    /\ result = Idle
    /\ result' = SelectIndex(args.seed, args.length)
    /\ UNCHANGED <<args, prevArgs, prevResult>>
    /\ UNCHANGED sessionVars

NextSelect == SelectCall

SpecSelect == InitSelect /\ [][NextSelect]_vars

MaxHintArg == 9

MaxTimeArg == 216

MaxStreakArg == 52

HintArgs == (-1)..MaxHintArg

TimeArgs == ((-2)..13) \cup (205..MaxTimeArg) \cup {1000}

StreakArgs == ((-2)..5) \cup (47..MaxStreakArg) \cup {100}

InitScore ==
    /\ InitSession
    /\ args \in {[fn |-> "computeScore", correct |-> c, hintsUsed |-> h,
                  timeSeconds |-> t, streakDays |-> d] :
                    c \in BOOLEAN, h \in HintArgs, t \in TimeArgs, d \in StreakArgs}
    /\ result = Idle
    /\ prevArgs = Idle
    /\ prevResult = Idle

ScoreCall ==
    /\ result = Idle
    /\ result' = [value |-> computeScore(args.correct, args.hintsUsed,
                                         args.timeSeconds, args.streakDays)]
    /\ UNCHANGED <<args, prevArgs, prevResult>>
    /\ UNCHANGED sessionVars

NextScore == ScoreCall

SpecScore == InitScore /\ [][NextScore]_vars

(***************************************************************************)
(* evaluateGuess on its own: every text of up to MaxGuessLen characters    *)
(* over a small alphabet, and decorated answers, against a few answers.    *)
(***************************************************************************)
MaxGuessLen == 3

\* A a b 1 space !
EvalChars == {65, 97, 98, 49, 32, 33}

\* "ab", "a b", "A1", "!" and the bank's "rabbit hole"
EvalAnswers == {<<97, 98>>, <<97, 32, 98>>, <<65, 49>>, <<33>>, puzzleBank[24].answer}

EvalGuesses ==
    UNION {[1..k -> EvalChars] : k \in 0..MaxGuessLen}
    \cup {Decorated(a) : a \in EvalAnswers}

InitEval ==
    /\ InitSession
    /\ args \in {[fn |-> "evaluateGuess", guess |-> g, answer |-> a] :
                    g \in EvalGuesses, a \in EvalAnswers}
    /\ result = Idle
    /\ prevArgs = Idle
    /\ prevResult = Idle

\* the evaluation, and normalizeText applied once more to the normalized guess
EvalCall ==
    /\ result = Idle
    /\ result' =
           LET evaluation == evaluateGuess(args.guess, args.answer)
           IN  [evaluation |-> evaluation, again |-> normalizeText(evaluation.normalizedGuess)]
    /\ UNCHANGED <<args, prevArgs, prevResult>>
    /\ UNCHANGED sessionVars

NextEval == EvalCall

SpecEval == InitEval /\ [][NextEval]_vars

(***************************************************************************)
(* validateCommunityClue on its own: clues that break each rule, several   *)
(* rules at once, and none, padded with up to MaxPad spaces on each side.  *)
(***************************************************************************)
MaxPad == 2

\* n times "x"
Filler(n) == [i \in 1..n |-> 120]

Padded(text, k) == [i \in 1..k |-> 32] \o text \o [i \in 1..k |-> 32]

ClueAnswer == puzzleBank[12].answer    \* "karma"

ShortLinkClue == <<116, 46, 109, 101, 47, 97, 98>>    \* "t.me/ab"

InviteClue == <<106, 111, 105, 110, 32, 100, 105, 115, 99, 111, 114, 100, 46, 103, 103, 47, 97, 98, 99, 100>>    \* "join discord.gg/abcd"

SpelledAnswerClue == <<107, 45, 97, 45, 114, 45, 109, 45, 97, 32, 105, 115, 32, 105, 116>>    \* "k-a-r-m-a is it"

AnswerLinkClue == <<107, 97, 114, 109, 97, 32, 104, 116, 116, 112, 58, 47, 47, 97, 46, 98>>    \* "karma http://a.b"

ClueBodies ==
    {Filler(7), Filler(8), Filler(180), Filler(181),
     ShortClue, GoodClue, ToUpperCase(GoodClue) \o <<33>>,
     LinkClue, ToUpperCase(LinkClue), ShortLinkClue, InviteClue, Filler(170) \o LinkClue,
     AnswerClue(ClueAnswer), SpelledAnswerClue, AnswerLinkClue}

ClueCallTexts == {Padded(b, k) : b \in ClueBodies, k \in 0..MaxPad}

\* no forbidden word; the answer; "!" and then the answer in capitals
ForbiddenArgs == {<<>>, <<ClueAnswer>>, <<<<33>>, ToUpperCase(ClueAnswer)>>}

ExistingArgs == {<<>>, <<GoodClue>>, <<AnswerClue(ClueAnswer), ToUpperCase(GoodClue)>>}

InitClue ==
    /\ InitSession
    /\ args \in {[fn |-> "validateCommunityClue", text |-> t, forbiddenWords |-> f,
                  existingClues |-> e] :
                    t \in ClueCallTexts, f \in ForbiddenArgs, e \in ExistingArgs}
    /\ result = Idle
    /\ prevArgs = Idle
    /\ prevResult = Idle

ClueCall ==
    /\ result = Idle
    /\ result' = validateCommunityClue(args.text, args.forbiddenWords, args.existingClues)
    /\ UNCHANGED <<args, prevArgs, prevResult>>
    /\ UNCHANGED sessionVars

NextClue == ClueCall

SpecClue == InitClue /\ [][NextClue]_vars

(***************************************************************************)
(* rankCommunityClues on its own: lists of up to MaxRankLen clues, and the *)
(* whole pool in both orders, ranked with a limit.  The pool has clues     *)
(* held in memory, the same clues as read back from localStorage, and      *)
(* clues the validator refuses; the answer of the day is ClueAnswer.       *)
(***************************************************************************)
MaxRankLen == 2

DefaultLimit == 5

CommunityClue(text, upvotes, modBoost, at) ==
    [text |-> text, author |-> "someone", upvotes |-> upvotes, modBoost |-> modBoost,
     approved |-> TRUE, createdAt |-> [isDate |-> TRUE, at |-> at]]

EarlyClue == CommunityClue(GoodClue, 5, 0, [day |-> FirstDay, ms |-> 1000])

LateClue == CommunityClue(GoodClue, 5, 0, [day |-> FirstDay, ms |-> 2000])

BoostedClue == CommunityClue(GoodClue, 2, 2, [day |-> FirstDay, ms |-> 1500])

RankPool ==
    <<EarlyClue, LateClue, BoostedClue, JsonClue(EarlyClue), JsonClue(LateClue),
      CommunityClue(ShortClue, 9, 0, [day |-> FirstDay, ms |-> 1000]),
      CommunityClue(Filler(181), 9, 0, [day |-> FirstDay, ms |-> 1000]),
      CommunityClue(LinkClue, 9, 0, [day |-> FirstDay, ms |-> 1000]),
      CommunityClue(AnswerClue(ClueAnswer), 9, 0, [day |-> FirstDay, ms |-> 1000])>>

RankLists ==
    UNION {[1..n -> {RankPool[k] : k \in 1..Len(RankPool)}] : n \in 0..MaxRankLen}
        \cup {RankPool, [i \in 1..Len(RankPool) |-> RankPool[Len(RankPool) + 1 - i]]}

RankLimits == {1, 2, DefaultLimit}

InitRank ==
    /\ InitSession
    /\ args \in {[fn |-> "rankCommunityClues", clues |-> l, limit |-> n] :
                    l \in RankLists, n \in RankLimits}
    /\ result = Idle
    /\ prevArgs = Idle
    /\ prevResult = Idle

RankCall ==
    /\ result = Idle
    /\ result' = [ranked |-> rankCommunityClues(args.clues, args.limit)]
    /\ UNCHANGED <<args, prevArgs, prevResult>>
    /\ UNCHANGED sessionVars

NextRank == RankCall

SpecRank == InitRank /\ [][NextRank]_vars

(***************************************************************************)
(* The store where things go wrong: the bank it was loaded with may be     *)
(* empty, and localStorage may stop answering reads, writes or both at any *)
(* moment and recover later.  The player solved the puzzle of the day      *)
(* before the first, which left a streak record of one day.                *)
(***************************************************************************)
InitFaulty ==
    /\ bank \in {<<>>, puzzleBank}
    /\ currentGame = NoGame
    /\ rendered = NoGame
    /\ prevCompletedRef = FALSE
    /\ posted = <<>>
    /\ isLoading = FALSE
    /\ error = NoError
    /\ storage = [streak |-> <<[lastSolvedDay |-> toUtcDayKey([day |-> FirstDay - 1, ms |-> 1000]),
                               streakDays |-> 1]>>,
                  clues |-> <<>>, readable |-> TRUE, writable |-> TRUE]
    /\ now = [day |-> FirstDay, ms |-> 1000]
    /\ scenario = "faults"
    /\ lastCall = NoCall
    /\ args = Idle
    /\ result = Idle
    /\ prevArgs = Idle
    /\ prevResult = Idle

StorageFault ==
    /\ \E r, w \in BOOLEAN :
           /\ <<r, w>> # <<storage.readable, storage.writable>>
           /\ storage' = [storage EXCEPT !.readable = r, !.writable = w]
    /\ UNCHANGED <<bank, currentGame, rendered, isLoading, error, now, scenario, lastCall>>
    /\ UNCHANGED pureVars
    /\ UNCHANGED appVars

NextFaulty ==
    \/ refreshGame
    \/ Guess
    \/ unlockHint
    \/ Clue
    \/ StorageFault

SpecFaulty == InitFaulty /\ [][NextFaulty]_vars

(***************************************************************************)
(* daySeed on its own: every text of up to MaxSeedLen characters of        *)
(* SeedChars, the day keys of PickDays, and "foobar".                      *)
(***************************************************************************)
MaxSeedLen == 3

SeedChars == {45, 48, 50, 57, 97}    \* - 0 2 9 a

SeedTexts ==
    UNION {[1..n -> SeedChars] : n \in 0..MaxSeedLen}
        \cup {toUtcDayKey([day |-> d, ms |-> 0]) : d \in PickDays}
        \cup {<<102, 111, 111, 98, 97, 114>>}

InitSeed ==
    /\ InitSession
    /\ args \in {[fn |-> "daySeed", dayKey |-> t] : t \in SeedTexts}
    /\ result = Idle
    /\ prevArgs = Idle
    /\ prevResult = Idle

SeedCall ==
    /\ result = Idle
    /\ result' = [value |-> daySeed(args.dayKey)]
    /\ UNCHANGED <<args, prevArgs, prevResult>>
    /\ UNCHANGED sessionVars

NextSeed == SeedCall

SpecSeed == InitSeed /\ [][NextSeed]_vars

(***************************************************************************)
(* The store when calls come faster than React renders.  submitGuess and   *)
(* unlockHint are made with useCallback over [currentGame]: a callback     *)
(* reads the currentGame of the render that made it and hands              *)
(* setCurrentGame a whole new value.  Until the component renders again,   *)
(* further calls go to the same callbacks and read the same snapshot.      *)
(***************************************************************************)
InitRace ==
    /\ bank = puzzleBank
    /\ currentGame = NoGame
    /\ rendered = NoGame
    /\ prevCompletedRef = FALSE
    /\ posted = <<>>
    /\ isLoading = FALSE
    /\ error = NoError
    /\ storage = [streak |-> <<>>, clues |-> <<>>, readable |-> TRUE, writable |-> TRUE]
    /\ now = [day |-> FirstDay, ms |-> 1000]
    /\ scenario = "race"
    /\ lastCall = NoCall
    /\ args = Idle
    /\ result = Idle
    /\ prevArgs = Idle
    /\ prevResult = Idle

\* what the player can type while looking at the last render
RaceGuessTexts ==
    IF ~rendered.loaded THEN {WrongWord(1)}
    ELSE {rendered.puzzle.answer, WrongWord(1), WrongWord(3)}

\* submitGuess is called, and no render follows yet
GuessCall == \E guess \in RaceGuessTexts : submitGuessFrom(rendered, guess) /\ UNCHANGED rendered

\* unlockHint is called, and no render follows yet
HintCall == unlockHintFrom(rendered) /\ UNCHANGED rendered

\* the component renders with the state last set
Render ==
    /\ rendered # currentGame
    /\ rendered' = currentGame
    /\ UNCHANGED <<bank, currentGame, isLoading, error, storage, now, scenario, lastCall>>
    /\ UNCHANGED pureVars
    /\ UNCHANGED appVars

NextRace ==
    \/ refreshGame
    \/ GuessCall
    \/ HintCall
    \/ Render

SpecRace == InitRace /\ [][NextRace]_vars

(***************************************************************************)
(* The store over LapseDays days, so that the player can solve on          *)
(* consecutive days, miss a day and come back.                             *)
(***************************************************************************)
InitLapse ==
    /\ bank = puzzleBank
    /\ currentGame = NoGame
    /\ rendered = NoGame
    /\ prevCompletedRef = FALSE
    /\ posted = <<>>
    /\ isLoading = FALSE
    /\ error = NoError
    /\ storage = [streak |-> <<>>, clues |-> <<>>, readable |-> TRUE, writable |-> TRUE]
    /\ now = [day |-> FirstDay, ms |-> 1000]
    /\ scenario = "lapse"
    /\ lastCall = NoCall
    /\ args = Idle
    /\ result = Idle
    /\ prevArgs = Idle
    /\ prevResult = Idle

SpecLapse == InitLapse /\ [][Next]_vars


(***************************************************************************)
(* The page: App mounts, loads the day's game once, hands the player's     *)
(* input to the store, and after each change of the game runs the effect   *)
(* that detects the end of the game and reports a solve to the host.       *)
(* posted holds what has been given to window.parent.postMessage since     *)
(* the page was loaded.                                                    *)
(***************************************************************************)
InitApp ==
    /\ bank = puzzleBank
    /\ currentGame = NoGame
    /\ rendered = NoGame
    /\ prevCompletedRef = FALSE
    /\ posted = <<>>
    /\ isLoading = FALSE
    /\ error = NoError
    /\ storage = [streak |-> <<>>, clues |-> <<>>, readable |-> TRUE, writable |-> TRUE]
    /\ now = [day |-> FirstDay, ms |-> 1000]
    /\ scenario = "app"
    /\ lastCall = NoCall
    /\ args = Idle
    /\ result = Idle
    /\ prevArgs = Idle
    /\ prevResult = Idle

\* const dayKey = new Date().toISOString().split('T')[0];
\* this.postMessage('GAME_COMPLETE', { score, guesses, streak, dayKey });
reportGameComplete(score, guesses, streak) ==
    [type |-> "GAME_COMPLETE", score |-> score, guesses |-> guesses, streak |-> streak,
     dayKey |-> toUtcDayKey(now)]

\* the effect has seen neither a solve nor the last guess of this game yet
EffectPending ==
    /\ currentGame.loaded
    /\ ~prevCompletedRef
    /\ \/ currentGame.playerState.completed
       \/ Len(currentGame.playerState.guesses) >= 6

\* useEffect(() => { void refreshGame(); void gameMaker.initialize(); }, [...]):
\* both dependencies keep their identity, so the effect runs once per mount
AppMount == lastCall = NoCall /\ refreshGame

\* the handlers of the board; React runs a pending effect before the next event
AppGuess == ~EffectPending /\ Guess

AppHint == ~EffectPending /\ unlockHint

AppClue == ~EffectPending /\ Clue

\* as DetectSolve, but a lost game is reported too
DetectSolveReportsLoss ==
    /\ currentGame.loaded
    /\ ~prevCompletedRef
    /\ \/ /\ currentGame.playerState.completed
          /\ posted' = Append(posted, reportGameComplete(currentGame.playerState.score,
                                                         Len(currentGame.playerState.guesses),
                                                         currentGame.playerState.streak))
       \/ /\ ~currentGame.playerState.completed
          /\ Len(currentGame.playerState.guesses) >= 6
          /\ posted' = Append(posted, reportGameComplete(currentGame.playerState.score,
                                                         Len(currentGame.playerState.guesses),
                                                         currentGame.playerState.streak))
    /\ prevCompletedRef' = TRUE
    /\ UNCHANGED <<bank, currentGame, rendered, isLoading, error, storage, now, scenario, lastCall>>
    /\ UNCHANGED pureVars

\* the "Detect solve" effect, when it has something to do
DetectSolve ==
    /\ currentGame.loaded
    /\ ~prevCompletedRef
    /\ \/ /\ currentGame.playerState.completed
          /\ posted' = Append(posted, reportGameComplete(currentGame.playerState.score,
                                                         Len(currentGame.playerState.guesses),
                                                         currentGame.playerState.streak))
       \/ /\ ~currentGame.playerState.completed
          /\ Len(currentGame.playerState.guesses) >= 6
          /\ posted' = posted
    /\ prevCompletedRef' = TRUE
    /\ UNCHANGED <<bank, currentGame, rendered, isLoading, error, storage, now, scenario, lastCall>>
    /\ UNCHANGED pureVars

\* the player reloads the page: the state of the components starts again,
\* localStorage stays
Reload ==
    /\ lastCall # NoCall
    /\ ~EffectPending
    /\ currentGame' = NoGame
    /\ rendered' = NoGame
    /\ isLoading' = FALSE
    /\ error' = NoError
    /\ prevCompletedRef' = FALSE
    /\ posted' = <<>>
    /\ lastCall' = NoCall
    /\ UNCHANGED <<bank, storage, now, scenario>>
    /\ UNCHANGED pureVars

NextApp ==
    \/ Tick
    \/ AppMount
    \/ AppGuess
    \/ AppHint
    \/ AppClue
    \/ DetectSolve
    \/ Reload

SpecApp == InitApp /\ [][NextApp]_vars

(***************************************************************************)
(* The claims.                                                             *)
(***************************************************************************)
Played == currentGame.playerState

Exhausted == Len(Played.guesses) >= 6 /\ ~Played.completed

\* lower-cased, everything but a-z and 0-9 removed
Normalized(text) == StripNonAlnum(ToLowerCase(text))

\* C1: pickDailyPuzzle's result depends on the UTC date of the instant and on the
\* bank only: two calls with instants of one UTC date and the same bank return the
\* same dayKey, seed, index and puzzle, and instants of different UTC dates give
\* different day keys; 2026-02-04T23:59:59Z gives 2026-02-04 and
\* 2026-02-05T00:00:01Z gives 2026-02-05.
PickDeterminism ==
    (result # Idle /\ prevResult # Idle) =>
        ((result.ok /\ prevResult.ok) =>
            /\ (args.inputDate.day = prevArgs.inputDate.day /\ args.bank = prevArgs.bank)
                   => result = prevResult
            /\ args.inputDate.day # prevArgs.inputDate.day
                   => result.dayKey # prevResult.dayKey
            /\ (prevArgs.inputDate = [day |-> 20488, ms |-> 86399000]
                    /\ args.inputDate = [day |-> 20489, ms |-> 1000])
                   => /\ prevResult.dayKey = <<50, 48, 50, 54, 45, 48, 50, 45, 48, 52>>
                      /\ result.dayKey = <<50, 48, 50, 54, 45, 48, 50, 45, 48, 53>>)

\* C1 witness: two calls at different times of one UTC date, same non-empty bank.
PickDeterminismWitness ==
    /\ result # Idle
    /\ prevResult # Idle
    /\ args.inputDate.day = prevArgs.inputDate.day
    /\ args.inputDate.ms # prevArgs.inputDate.ms
    /\ args.bank = prevArgs.bank
    /\ result.ok
    /\ result = prevResult

\* C2: for every seed and every non-empty bank the index is floor(draw * length),
\* draw being the first Mulberry32 output over 2^32: the draw is in [0, 1), the
\* index is in 0 .. length - 1, and one draw is consumed.  The first output for
\* seed 0 is 1144304738 = 17460 * 2^16 + 46178.
SelectionInRange ==
    (args.fn = "SelectIndex" /\ result # Idle) =>
        LET scaled == result.draw[1] * args.length + ((result.draw[2] * args.length) \div 65536)
        IN  /\ result.draws = 1
            /\ result.draw[1] \in 0..65535
            /\ result.draw[2] \in 0..65535
            /\ result.index \in 0..(args.length - 1)
            /\ result.index * 65536 <= scaled
            /\ scaled < (result.index + 1) * 65536
            /\ args.seed = <<0, 0>> => result.draw = <<17460, 46178>>

\* C2 witness: a draw that selects the last puzzle of a bank of 35.
SelectionInRangeWitness ==
    /\ args.fn = "SelectIndex"
    /\ result # Idle
    /\ args.length = 35
    /\ result.index = 34

\* C3, as claimed: submitGuess returns false, leaves the game as it was and sets an
\* error message when the day is completed, when 6 guesses are used, and when the
\* normalized guess is the normalized text of an earlier guess.
SubmitGuessRejections ==
    [][\A g \in GuessTexts :
          (/\ submitGuess(g)
           /\ currentGame.loaded
           /\ \/ Played.completed
              \/ Len(Played.guesses) >= 6
              \/ \E k \in 1..Len(Played.guesses) :
                     Normalized(Played.guesses[k].text) = Normalized(g))
          => (/\ lastCall'.ret = "false"
              /\ currentGame' = currentGame
              /\ storage' = storage
              /\ error' # NoError)]_vars

\* C4, as claimed: once the day is Completed or Exhausted, submitGuess and
\* unlockHint are rejected and leave the player's state as it was.
TerminalStatesRejectAll ==
    [][(/\ currentGame.loaded
        /\ Played.completed \/ Exhausted
        /\ (\E g \in GuessTexts : submitGuess(g)) \/ unlockHint)
       => (/\ currentGame'.playerState = Played
           /\ lastCall'.ret # "true")]_vars

\* C5: in every reachable state of the session there are at most 6 guesses.
GuessCap == currentGame.loaded => Len(Played.guesses) <= 6

\* C5 witness: a guess was refused because 6 were used.
GuessCapWitness ==
    /\ currentGame.loaded
    /\ Len(Played.guesses) = 6
    /\ lastCall = [op |-> "submitGuess", ret |-> "false"]
    /\ error = "No guesses remaining for today."

\* C6: in every reachable state no two guesses have the same normalized text.
NoDuplicateGuesses ==
    currentGame.loaded =>
        \A i, j \in 1..Len(Played.guesses) :
            i # j => Normalized(Played.guesses[i].text) # Normalized(Played.guesses[j].text)

\* C6 witness: a guess was refused as tried already, with two guesses standing.
NoDuplicateGuessesWitness ==
    /\ currentGame.loaded
    /\ Len(Played.guesses) >= 2
    /\ lastCall = [op |-> "submitGuess", ret |-> "false"]
    /\ error = "You already tried that guess."

\* the calendar, 2026-02-25 to 2026-03-06
Calendar ==
    <<
       <<50, 48, 50, 54, 45, 48, 50, 45, 50, 53>>,   \* 2026-02-25
       <<50, 48, 50, 54, 45, 48, 50, 45, 50, 54>>,   \* 2026-02-26
       <<50, 48, 50, 54, 45, 48, 50, 45, 50, 55>>,   \* 2026-02-27
       <<50, 48, 50, 54, 45, 48, 50, 45, 50, 56>>,   \* 2026-02-28
       <<50, 48, 50, 54, 45, 48, 51, 45, 48, 49>>,   \* 2026-03-01
       <<50, 48, 50, 54, 45, 48, 51, 45, 48, 50>>,   \* 2026-03-02
       <<50, 48, 50, 54, 45, 48, 51, 45, 48, 51>>,   \* 2026-03-03
       <<50, 48, 50, 54, 45, 48, 51, 45, 48, 52>>,   \* 2026-03-04
       <<50, 48, 50, 54, 45, 48, 51, 45, 48, 53>>,   \* 2026-03-05
       <<50, 48, 50, 54, 45, 48, 51, 45, 48, 54>>    \* 2026-03-06
    >>

IsDayBefore(a, b) == \E i \in 1..(Len(Calendar) - 1) : Calendar[i] = a /\ Calendar[i + 1] = b

\* the streak record a solve of day D leaves, given the record before it
ExpectedStreak(D, old) ==
    IF old # <<>> /\ old[1].lastSolvedDay = D THEN old
    ELSE IF old # <<>> /\ IsDayBefore(old[1].lastSolvedDay, D)
    THEN <<[lastSolvedDay |-> D, streakDays |-> old[1].streakDays + 1]>>
    ELSE <<[lastSolvedDay |-> D, streakDays |-> 1]>>

AcceptedToday ==
    /\ storage.clues # <<>>
    /\ currentGame.dayKey \in DOMAIN storage.clues[1]
    /\ \E k \in 1..Len(storage.clues[1][currentGame.dayKey]) :
           storage.clues[1][currentGame.dayKey][k].author = "local-player"

ReferenceScore(correct, hintsUsed, timeSeconds, streakDays) ==
    IF ~correct THEN 0
    ELSE LET hintPenalty == IF hintsUsed > 1 THEN (hintsUsed - 1) * 15 ELSE 0
             timePenalty == IF timeSeconds <= 0 THEN 0
                            ELSE IF timeSeconds >= 210 THEN 35
                            ELSE timeSeconds \div 6
             streakBonus == IF streakDays <= 0 THEN 0
                            ELSE IF streakDays >= 50 THEN 25
                            ELSE streakDays \div 2
             raw == 100 - hintPenalty - timePenalty + streakBonus
         IN  IF raw < 5 THEN 5 ELSE raw

\* C9: computeScore equals the reference formula on all the bounded integer inputs;
\* computeScore(true, 1, 0, 0) = 100 and computeScore(true, 1, 0, 100) = 125.
ScoreMatchesReference ==
    (args.fn = "computeScore" /\ result # Idle) =>
        /\ result.value = ReferenceScore(args.correct, args.hintsUsed,
                                         args.timeSeconds, args.streakDays)
        /\ (args.correct /\ args.hintsUsed = 1 /\ args.timeSeconds = 0 /\ args.streakDays = 0)
               => result.value = 100
        /\ (args.correct /\ args.hintsUsed = 1 /\ args.timeSeconds = 0 /\ args.streakDays = 100)
               => result.value = 125

\* C9 witness: the streak cap engaged, computeScore(true, 1, 0, 100) = 125.
ScoreMatchesReferenceWitness ==
    /\ args.fn = "computeScore"
    /\ result # Idle
    /\ args.correct
    /\ args.hintsUsed = 1
    /\ args.timeSeconds = 0
    /\ args.streakDays = 100
    /\ result.value = 125

\* C10: with hintsUsed >= 1, whatever timeSeconds and streakDays, negative ones
\* too, computeScore is 0 when not correct and in 5 .. 125 when correct.
ScoreRange ==
    (args.fn = "computeScore" /\ result # Idle /\ args.hintsUsed >= 1) =>
        IF args.correct THEN result.value \in 5..125 ELSE result.value = 0

\* C10 witness: a correct solve with many hints and negative time and streak
\* scores the floor of 5.
ScoreRangeWitness ==
    /\ args.fn = "computeScore"
    /\ result # Idle
    /\ args.correct
    /\ args.hintsUsed > 7
    /\ args.timeSeconds < 0
    /\ args.streakDays < 0
    /\ result.value = 5

\* the call computeScore(true, 3, 1000, 0) has returned
SlowThreeHintCall ==
    /\ args.fn = "computeScore"
    /\ result # Idle
    /\ args.correct
    /\ args.hintsUsed = 3
    /\ args.timeSeconds = 1000
    /\ args.streakDays = 0

\* C11, as claimed: computeScore(true, 3, 1000, 0) returns 5.
SlowThreeHintScoreIsFive == SlowThreeHintCall => result.value = 5

\* C11, amended: computeScore(true, 3, 1000, 0) returns 35, which is
\* 100 - 2 * 15 - 35 + 0 with the time penalty capped at 35.
SlowThreeHintScore == SlowThreeHintCall => result.value = 35

\* C11 witness: the call was made and returned 35.
SlowThreeHintScoreWitness == SlowThreeHintCall /\ result.value = 35

\* C12: in the session hintsUnlocked stays within 1 .. 3, and a correct guess
\* accepted with h hints unlocked is awarded the score of the same guess with one
\* hint, at the same elapsed time and streak, less 15 for each hint beyond the
\* first.
HintCostsFifteen ==
    [][\A g \in GuessTexts :
          (/\ currentGame.loaded
           /\ submitGuess(g)
           /\ Len(currentGame'.playerState.guesses) = Len(Played.guesses) + 1
           /\ currentGame'.playerState.completed)
          => /\ Played.hintsUnlocked \in 1..3
             /\ currentGame'.playerState.score =
                    ReferenceScore(TRUE, 1, ElapsedSeconds(Played.timeStarted), Played.streak)
                    - 15 * (Played.hintsUnlocked - 1)]_vars

\* C12 witness: a correct guess accepted at once with all three hints unlocked and
\* no streak scored 100 - 2 * 15.
HintCostsFifteenWitness ==
    /\ currentGame.loaded
    /\ Played.completed
    /\ Played.hintsUnlocked = 3
    /\ Played.score = 70
    /\ lastCall = [op |-> "submitGuess", ret |-> "true"]

\* a text lower-cased, keeping only a-z and 0-9, written character by character
ReferenceNormalize(text) ==
    LET lower == [i \in 1..Len(text) |->
                     IF text[i] \in 65..90 THEN text[i] + 32 ELSE text[i]]
        Keep(c) == c \in (97..122) \cup (48..57)
    IN  SelectSeq(lower, Keep)

\* C13: evaluateGuess reports correct exactly when the guess, lower-cased and
\* stripped of everything outside a-z and 0-9, is non-empty and equal to the answer
\* treated the same way; so "A b" is correct for "ab", a guess that normalizes to
\* the empty text is never correct, and normalizing a normalized text changes
\* nothing.
EvaluateGuessCorrectness ==
    (args.fn = "evaluateGuess" /\ result # Idle) =>
        LET guess == ReferenceNormalize(args.guess)
            answer == ReferenceNormalize(args.answer)
        IN  /\ result.evaluation.normalizedGuess = guess
            /\ result.evaluation.normalizedAnswer = answer
            /\ result.evaluation.correct = (guess # <<>> /\ guess = answer)
            /\ guess = <<>> => ~result.evaluation.correct
            /\ (args.guess = <<65, 32, 98>> /\ args.answer = <<97, 98>>)
                   => result.evaluation.correct
            /\ result.again = result.evaluation.normalizedGuess

\* C13 witness: " RABBIT HOLE!" was found correct for "rabbit hole".
EvaluateGuessCorrectnessWitness ==
    /\ args.fn = "evaluateGuess"
    /\ result # Idle
    /\ args.answer = puzzleBank[24].answer
    /\ args.guess = Decorated(puzzleBank[24].answer)
    /\ args.guess # args.answer
    /\ result.evaluation.correct

\* a text without the white space at its two ends
ReferenceTrim(text) ==
    LET inked == {i \in 1..Len(text) : text[i] \notin {9, 10, 11, 12, 13, 32}}
    IN  IF inked = {} THEN <<>>
        ELSE SubSeq(text, CHOOSE i \in inked : \A j \in inked : i <= j,
                          CHOOSE i \in inked : \A j \in inked : i >= j)

ReferenceLower(text) ==
    [i \in 1..Len(text) |-> IF text[i] \in 65..90 THEN text[i] + 32 ELSE text[i]]

ReferenceContains(text, part) ==
    \E i \in 0..(Len(text) - Len(part)) : \A j \in 1..Len(part) : text[i + j] = part[j]

\* "http://", "https://", "discord.gg", "t.me/"
ReferenceLinks ==
    {<<104, 116, 116, 112, 58, 47, 47>>, <<104, 116, 116, 112, 115, 58, 47, 47>>,
     <<100, 105, 115, 99, 111, 114, 100, 46, 103, 103>>, <<116, 46, 109, 101, 47>>}

\* the rules in their order; the reason of the first that fails, or "ok"
ReferenceClueReason(text, forbiddenWords, existingClues) ==
    LET raw == ReferenceTrim(text)
        normalized == ReferenceNormalize(raw)
    IN  IF Len(raw) < 8 THEN "Clue must be at least 8 characters."
        ELSE IF Len(raw) > 180 THEN "Clue must be 180 characters or fewer."
        ELSE IF \E link \in ReferenceLinks : ReferenceContains(ReferenceLower(raw), link)
        THEN "Links are not allowed in clues."
        ELSE IF \E k \in 1..Len(forbiddenWords) :
                   /\ ReferenceNormalize(forbiddenWords[k]) # <<>>
                   /\ ReferenceContains(normalized, ReferenceNormalize(forbiddenWords[k]))
        THEN "Clue cannot contain the answer."
        ELSE IF \E k \in 1..Len(existingClues) :
                   ReferenceNormalize(existingClues[k]) = normalized
        THEN "This clue already exists for today."
        ELSE "ok"

\* C14: validateCommunityClue returns the reason of the first rule that fails, in
\* the order too short, too long, link, answer, duplicate, and valid otherwise;
\* trimmed lengths 8 and 180 pass the length rules, 7 and 181 do not; the answer
\* spelled "k-a-r-m-a" or in capitals is caught; a clue that differs from an
\* existing one only in case and punctuation is a duplicate.
ClueRulesInOrder ==
    (args.fn = "validateCommunityClue" /\ result # Idle) =>
        LET raw == ReferenceTrim(args.text)
        IN  /\ result.reason = ReferenceClueReason(args.text, args.forbiddenWords,
                                                   args.existingClues)
            /\ result.valid = (result.reason = "ok")
            /\ raw = Filler(7) => result.reason = "Clue must be at least 8 characters."
            /\ raw = Filler(181) => result.reason = "Clue must be 180 characters or fewer."
            /\ raw \in {Filler(8), Filler(180)} => result.valid
            /\ raw = ShortLinkClue => result.reason = "Clue must be at least 8 characters."
            /\ (raw \in {SpelledAnswerClue, AnswerClue(ClueAnswer)} /\ args.forbiddenWords # <<>>)
                   => result.reason = "Clue cannot contain the answer."
            /\ (raw = AnswerLinkClue) => result.reason = "Links are not allowed in clues."
            /\ (raw = ToUpperCase(GoodClue) \o <<33>> /\ args.existingClues # <<>>)
                   => result.reason = "This clue already exists for today."

\* C14 witness: "A VIVID CLUE!", padded, was refused as a duplicate of
\* "a vivid clue" after passing the length, link and answer rules.
ClueRulesInOrderWitness ==
    /\ args.fn = "validateCommunityClue"
    /\ result # Idle
    /\ args.text = Padded(ToUpperCase(GoodClue) \o <<33>>, 2)
    /\ args.forbiddenWords = <<ClueAnswer>>
    /\ args.existingClues = <<GoodClue>>
    /\ result = [valid |-> FALSE, reason |-> "This clue already exists for today."]

CombinedScore(c) == c.upvotes + 3 * c.modBoost

\* clue a was created after clue b, or at the same instant
CreatedNoEarlier(a, b) ==
    \/ a.createdAt.at.day > b.createdAt.at.day
    \/ a.createdAt.at.day = b.createdAt.at.day /\ a.createdAt.at.ms >= b.createdAt.at.ms

\* C15: rankCommunityClues returns at most limit clues, in descending order of
\* upvotes + 3*modBoost, clues of equal combined score most recently created
\* first, also when the clues were read back from storage.
RankedOrder ==
    (args.fn = "rankCommunityClues" /\ result # Idle) =>
        /\ Len(result.ranked) <= args.limit
        /\ \A i, j \in 1..Len(result.ranked) :
               i < j =>
                   \/ CombinedScore(result.ranked[i]) > CombinedScore(result.ranked[j])
                   \/ /\ CombinedScore(result.ranked[i]) = CombinedScore(result.ranked[j])
                      /\ CreatedNoEarlier(result.ranked[i], result.ranked[j])

\* C16: no clue that is too short, too long, holds a link or holds the answer of
\* the day is in the output of rankCommunityClues.
RankedCluesPassValidator ==
    (args.fn = "rankCommunityClues" /\ result # Idle) =>
        \A i \in 1..Len(result.ranked) :
            ReferenceClueReason(result.ranked[i].text, <<ClueAnswer>>, <<>>) = "ok"

\* C17: with an empty bank pickDailyPuzzle fails with "Puzzle bank cannot be
\* empty." and returns no selection; refreshGame then shows that message, leaves
\* currentGame as it was and not loaded, and ends with isLoading false.
EmptyBankRefused ==
    [][(bank = <<>> /\ refreshGame)
          => /\ pickDailyPuzzle(now, bank) =
                    [ok |-> FALSE, message |-> "Puzzle bank cannot be empty."]
             /\ error' = "Puzzle bank cannot be empty."
             /\ currentGame' = currentGame
             /\ ~currentGame'.loaded
             /\ ~isLoading']_vars

\* C17 witness: refreshGame was called with an empty bank; the error is shown and
\* there is no game.
EmptyBankRefusedWitness ==
    /\ bank = <<>>
    /\ lastCall = [op |-> "refreshGame", ret |-> "void"]
    /\ error = "Puzzle bank cannot be empty."
    /\ currentGame = NoGame
    /\ ~isLoading

\* the streak record a read obtains: none while storage cannot be read
StreakSeen == IF storage.readable THEN storage.streak ELSE <<>>

\* the clues of a day a read obtains: none while storage cannot be read
CluesSeen(dayKey) ==
    IF storage.readable /\ storage.clues # <<>> /\ dayKey \in DOMAIN storage.clues[1]
    THEN storage.clues[1][dayKey]
    ELSE <<>>

\* C18: whether or not localStorage can be read or written, refreshGame starts
\* the game of the day with the streak and the clues as read (0 and none when
\* unreadable); an accepted guess is appended and scored, and a correct one sets
\* the streak to what follows from the record as read; an accepted clue is added
\* to the ranked clues shown; each call returns, and what cannot be written
\* leaves the stored documents as they were.
StorageFailureHarmless ==
    [][/\ (lastCall'.op = "refreshGame" /\ bank # <<>> /\ refreshGame)
              => /\ currentGame'.loaded
                 /\ currentGame'.dayKey = toUtcDayKey(now)
                 /\ currentGame'.playerState =
                        [guesses |-> <<>>, hintsUnlocked |-> 1, score |-> 0,
                         completed |-> FALSE, timeStarted |-> now,
                         streak |-> IF StreakSeen = <<>> THEN 0
                                    ELSE StreakSeen[1].streakDays]
                 /\ currentGame'.communityClues = CluesSeen(toUtcDayKey(now))
                 /\ error' = NoError
                 /\ ~isLoading'
                 /\ storage' = storage
       /\ \A g \in GuessTexts :
              (/\ lastCall'.op = "submitGuess"
               /\ currentGame.loaded
               /\ ~Played.completed
               /\ Len(Played.guesses) < 6
               /\ \A k \in 1..Len(Played.guesses) :
                      ReferenceNormalize(Played.guesses[k].text) # ReferenceNormalize(g)
               /\ submitGuess(g))
              => LET correct == ReferenceNormalize(g) =
                                    ReferenceNormalize(currentGame.puzzle.answer)
                 IN  /\ currentGame' =
                            [currentGame EXCEPT !.playerState =
                                [guesses |-> Append(Played.guesses,
                                                    [text |-> g, correct |-> correct]),
                                 hintsUnlocked |-> Played.hintsUnlocked,
                                 score |-> ReferenceScore(correct, Played.hintsUnlocked,
                                               ElapsedSeconds(Played.timeStarted),
                                               Played.streak),
                                 completed |-> correct,
                                 timeStarted |-> Played.timeStarted,
                                 streak |-> IF correct
                                            THEN ExpectedStreak(currentGame.dayKey,
                                                                StreakSeen)[1].streakDays
                                            ELSE Played.streak]]
                     /\ lastCall' = GuessReturn(IF correct THEN "true" ELSE "false")
                     /\ (~correct \/ ~storage.writable) => storage' = storage
       /\ \A c \in ClueTexts :
              (/\ lastCall'.op = "submitClue"
               /\ currentGame.loaded
               /\ \A k \in 1..Len(currentGame.communityClues) :
                      currentGame.communityClues[k].author # "local-player"
               /\ ReferenceClueReason(c, <<currentGame.puzzle.answer>>,
                      [k \in 1..Len(currentGame.communityClues) |->
                          currentGame.communityClues[k].text]) = "ok"
               /\ submitClue(c))
              => /\ \E k \in 1..Len(currentGame'.communityClues) :
                        /\ currentGame'.communityClues[k].text = ReferenceTrim(c)
                        /\ currentGame'.communityClues[k].author = "local-player"
                 /\ Len(currentGame'.communityClues) =
                        IF Len(currentGame.communityClues) < 5
                        THEN Len(currentGame.communityClues) + 1 ELSE 5
                 /\ currentGame'.playerState = Played
                 /\ error' = NoError
                 /\ lastCall' = ClueReturn("true")
                 /\ (~storage.readable \/ ~storage.writable) => storage' = storage]_vars

\* C18 witness: the day after a solve that was recorded, with localStorage neither
\* readable nor writable, the game was started with streak 0 and solved; the
\* streak in memory is 1 and the stored record is still that of the day before.
StorageFailureHarmlessWitness ==
    /\ currentGame.loaded
    /\ ~storage.readable
    /\ ~storage.writable
    /\ lastCall = [op |-> "submitGuess", ret |-> "true"]
    /\ Played.completed
    /\ Played.streak = 1
    /\ storage.streak # <<>>
    /\ IsDayBefore(storage.streak[1].lastSolvedDay, currentGame.dayKey)

\* XOR of two bytes
ReferenceXorByte(a, b) ==
    LET Bit(x, k) == (x \div (2 ^ k)) % 2
        D(k) == ((Bit(a, k) + Bit(b, k)) % 2) * (2 ^ k)
    IN  D(0) + D(1) + D(2) + D(3) + D(4) + D(5) + D(6) + D(7)

\* FNV-1a of the first n characters, as four bytes, lowest first.  The offset
\* basis 2166136261 is 0x81 0x1C 0x9D 0xC5; the prime 16777619 is 2^24 + 403, so
\* the product modulo 2^32 is 403 times the value, plus its lowest byte moved to
\* the highest place.
RECURSIVE ReferenceFnv(_, _)
ReferenceFnv(text, n) ==
    IF n = 0 THEN <<197, 157, 28, 129>>
    ELSE LET h == ReferenceFnv(text, n - 1)
             x0 == ReferenceXorByte(h[1], text[n])
             t0 == x0 * 403
             t1 == h[2] * 403 + (t0 \div 256)
             t2 == h[3] * 403 + (t1 \div 256)
             t3 == h[4] * 403 + (t2 \div 256) + x0
         IN  <<t0 % 256, t1 % 256, t2 % 256, t3 % 256>>

\* C19: daySeed is 32-bit FNV-1a of its text: from 2166136261, for each character
\* XOR its code in, then multiply by 16777619 modulo 2^32; the result is in
\* 0 .. 2^32 - 1.  The published values for "", "a" and "foobar" come out.
DaySeedIsFnv1a ==
    (args.fn = "daySeed" /\ result # Idle) =>
        LET h == ReferenceFnv(args.dayKey, Len(args.dayKey))
        IN  /\ result.value = <<h[4] * 256 + h[3], h[2] * 256 + h[1]>>
            /\ result.value[1] \in 0..65535
            /\ result.value[2] \in 0..65535
            /\ args.dayKey = <<>> => result.value = <<33052, 40389>>       \* 0x811C9DC5
            /\ args.dayKey = <<97>> => result.value = <<58380, 10540>>     \* 0xE40C292C
            /\ args.dayKey = <<102, 111, 111, 98, 97, 114>>
                   => result.value = <<49052, 63848>>                      \* 0xBF9CF968

\* C19 witness: the seed of a ten-character day key was computed, and the
\* multiplication wrapped: the high half of the seed is below that of the basis.
DaySeedIsFnv1aWitness ==
    /\ args.fn = "daySeed"
    /\ result # Idle
    /\ Len(args.dayKey) = 10
    /\ result.value[1] < 33052

\* the callback of the last render accepts guess g: there is a game, not
\* completed, with guesses left, and g was not tried
AcceptedFrom(game, g) ==
    /\ game.loaded
    /\ ~game.playerState.completed
    /\ Len(game.playerState.guesses) < 6
    /\ \A k \in 1..Len(game.playerState.guesses) :
           ReferenceNormalize(game.playerState.guesses[k].text) # ReferenceNormalize(g)

\* C20: however submitGuess and unlockHint calls interleave with renders, also
\* when two calls read the same snapshot, each call acts on the state the calls
\* before it left: an accepted guess is appended to the guesses there are, so that
\* none is lost and none counted twice, a hint call keeps the guesses, and there
\* are never more than 6 guesses.
CallsSerialized ==
    [][/\ \A g \in RaceGuessTexts :
              (/\ lastCall'.op = "submitGuess"
               /\ AcceptedFrom(rendered, g)
               /\ submitGuessFrom(rendered, g))
              => /\ Len(currentGame'.playerState.guesses) =
                        Len(currentGame.playerState.guesses) + 1
                 /\ \A k \in 1..Len(currentGame.playerState.guesses) :
                        currentGame'.playerState.guesses[k] = currentGame.playerState.guesses[k]
                 /\ currentGame'.playerState.guesses[Len(currentGame'.playerState.guesses)].text = g
       /\ (lastCall'.op = "unlockHint" /\ currentGame.loaded /\ unlockHintFrom(rendered))
              => currentGame'.playerState.guesses = currentGame.playerState.guesses
       /\ currentGame'.loaded => Len(currentGame'.playerState.guesses) <= 6]_vars

\* the step stays within one day's game
SameDay == currentGame.loaded /\ currentGame'.loaded /\ currentGame'.dayKey = currentGame.dayKey

\* C21: within one day completed goes from false to true only by the acceptance
\* of the first correct guess, and once true it stays true, whatever is called.
CompletedSetOnce ==
    [][SameDay =>
          /\ Played.completed => currentGame'.playerState.completed
          /\ (~Played.completed /\ currentGame'.playerState.completed)
                 => /\ lastCall'.op = "submitGuess"
                    /\ Len(currentGame'.playerState.guesses) = Len(Played.guesses) + 1
                    /\ currentGame'.playerState.guesses[Len(Played.guesses) + 1].correct
                    /\ \A k \in 1..Len(Played.guesses) : ~Played.guesses[k].correct]_vars

\* C22: within one day hintsUnlocked is in 1 .. 3 and never decreases, whatever is
\* called.
HintsNeverDecrease ==
    [][SameDay =>
          /\ currentGame'.playerState.hintsUnlocked \in 1..3
          /\ currentGame'.playerState.hintsUnlocked >= Played.hintsUnlocked]_vars

\* C23: unlockHint changes nothing when the day is completed or hintsUnlocked is
\* 3; otherwise hintsUnlocked grows by exactly 1 and guesses, score, completed,
\* streak, the clues shown and the stored documents stay as they are.
UnlockHintEffect ==
    [][(lastCall'.op = "unlockHint" /\ currentGame.loaded /\ unlockHint)
          => /\ (Played.completed \/ Played.hintsUnlocked = 3) => currentGame' = currentGame
             /\ (~Played.completed /\ Played.hintsUnlocked # 3)
                    => /\ currentGame'.playerState.hintsUnlocked = Played.hintsUnlocked + 1
                       /\ currentGame'.playerState.guesses = Played.guesses
                       /\ currentGame'.playerState.score = Played.score
                       /\ currentGame'.playerState.completed = Played.completed
                       /\ currentGame'.playerState.streak = Played.streak
                       /\ currentGame'.communityClues = currentGame.communityClues
             /\ storage' = storage]_vars

\* C23 witness: the second hint was unlocked after a wrong guess, which is still
\* there.
UnlockHintEffectWitness ==
    /\ currentGame.loaded
    /\ lastCall = [op |-> "unlockHint", ret |-> "void"]
    /\ Played.hintsUnlocked = 2
    /\ Len(Played.guesses) = 1
    /\ ~Played.completed

\* C24: in every state of the session, if the day is completed there is at least
\* one guess, the last guess is marked correct and no guess before it is.
CompletedMeansLastCorrect ==
    (currentGame.loaded /\ Played.completed) =>
        /\ Len(Played.guesses) >= 1
        /\ Played.guesses[Len(Played.guesses)].correct
        /\ \A k \in 1..(Len(Played.guesses) - 1) : ~Played.guesses[k].correct

\* C24 witness: the day was solved by the third guess.
CompletedMeansLastCorrectWitness ==
    /\ currentGame.loaded
    /\ Played.completed
    /\ Len(Played.guesses) = 3

\* C25: an accepted incorrect guess adds exactly one guess and leaves score 0,
\* completed false, and hintsUnlocked, the streak in memory and the stored streak
\* record as they were; and in every state score is 0 exactly when the day is not
\* completed.
IncorrectGuessEffect ==
    /\ [](currentGame.loaded => (Played.score = 0 <=> ~Played.completed))
    /\ [][\A g \in GuessTexts :
              (/\ lastCall'.op = "submitGuess"
               /\ AcceptedFrom(currentGame, g)
               /\ ReferenceNormalize(g) # ReferenceNormalize(currentGame.puzzle.answer)
               /\ submitGuess(g))
              => /\ Len(currentGame'.playerState.guesses) = Len(Played.guesses) + 1
                 /\ SubSeq(currentGame'.playerState.guesses, 1, Len(Played.guesses)) =
                        Played.guesses
                 /\ currentGame'.playerState.score = 0
                 /\ ~currentGame'.playerState.completed
                 /\ currentGame'.playerState.hintsUnlocked = Played.hintsUnlocked
                 /\ currentGame'.playerState.streak = Played.streak
                 /\ storage'.streak = storage.streak]_vars

\* C25 witness: a wrong guess was just accepted on the day after a solve, with
\* two hints unlocked: the streak in memory and the stored record are those of
\* the day before.
IncorrectGuessEffectWitness ==
    /\ currentGame.loaded
    /\ lastCall = [op |-> "submitGuess", ret |-> "false"]
    /\ Len(Played.guesses) = 1
    /\ ~Played.guesses[1].correct
    /\ Played.score = 0
    /\ Played.hintsUnlocked = 2
    /\ Played.streak = 1
    /\ storage.streak # <<>>
    /\ storage.streak[1].lastSolvedDay # currentGame.dayKey

\* the list holds the player's clue with this text, as submitClue makes it
HoldsNewClue(list, text) ==
    \E k \in 1..Len(list) :
        /\ list[k].text = text
        /\ list[k].author = "local-player"
        /\ list[k].upvotes = 1
        /\ list[k].modBoost = 0
        /\ list[k].approved

\* the clues stored for the day of the game
StoredToday(store, dayKey) ==
    IF store.clues # <<>> /\ dayKey \in DOMAIN store.clues[1] THEN store.clues[1][dayKey]
    ELSE <<>>

\* C26 as stated: whenever submitClue returns true the clue, with upvotes 1,
\* modBoost 0 and approved, is right afterwards among the clues shown and among
\* the clues stored for the day.
AcceptedClueShownAndStored ==
    [][\A c \in ClueTexts :
          (lastCall' = ClueReturn("true") /\ currentGame.loaded /\ submitClue(c))
          => /\ HoldsNewClue(currentGame'.communityClues, ReferenceTrim(c))
             /\ HoldsNewClue(StoredToday(storage', currentGame.dayKey), ReferenceTrim(c))]_vars

\* C26 amended: whenever submitClue returns true the clue, with upvotes 1,
\* modBoost 0 and approved, is right afterwards among the clues shown; it is among
\* the clues stored for the day if localStorage could be read and written, and
\* otherwise the stored documents are as they were.
AcceptedClueShown ==
    [][\A c \in ClueTexts :
          (lastCall' = ClueReturn("true") /\ currentGame.loaded /\ submitClue(c))
          => /\ HoldsNewClue(currentGame'.communityClues, ReferenceTrim(c))
             /\ IF storage.readable /\ storage.writable
                THEN HoldsNewClue(StoredToday(storage', currentGame.dayKey), ReferenceTrim(c))
                ELSE storage' = storage]_vars

\* C26 witness: a clue was just accepted; it is shown and stored.
AcceptedClueShownWitness ==
    /\ currentGame.loaded
    /\ lastCall = ClueReturn("true")
    /\ HoldsNewClue(currentGame.communityClues, GoodClue)
    /\ HoldsNewClue(StoredToday(storage, currentGame.dayKey), GoodClue)

\* the stored streak record is of a run that ended before yesterday
RunBroken(dayKey) ==
    /\ storage.streak # <<>>
    /\ storage.streak[1].lastSolvedDay # dayKey
    /\ ~IsDayBefore(storage.streak[1].lastSolvedDay, dayKey)

\* C27: when a correct guess is accepted while the stored lastSolvedDay is
\* neither the day of the game nor the day before it, the score is the one for
\* streak 0.
BrokenRunScoresNoBonus ==
    [][\A g \in GuessTexts :
          (/\ lastCall' = GuessReturn("true")
           /\ AcceptedFrom(currentGame, g)
           /\ RunBroken(currentGame.dayKey)
           /\ submitGuess(g))
          => currentGame'.playerState.score =
                 ReferenceScore(TRUE, Played.hintsUnlocked,
                                ElapsedSeconds(Played.timeStarted), 0)]_vars

\* C28: as long as the game is not refreshed, every accepted guess makes guesses
\* longer by one and none is accepted once the day is completed or 6 guesses are
\* made; so there are never more than 6 guesses, with 6 guesses the day is
\* completed or exhausted, and an exhausted day has 6 incorrect guesses.
PlayTerminates ==
    /\ [](currentGame.loaded =>
              /\ Len(Played.guesses) <= 6
              /\ Len(Played.guesses) = 6 => (Played.completed \/ Exhausted)
              /\ Exhausted => (/\ Len(Played.guesses) = 6
                               /\ \A k \in 1..6 : ~Played.guesses[k].correct))
    /\ [][(lastCall'.op # "refreshGame" /\ currentGame.loaded)
              => /\ currentGame'.playerState.guesses # Played.guesses
                     => /\ Len(currentGame'.playerState.guesses) = Len(Played.guesses) + 1
                        /\ ~Played.completed
                        /\ Len(Played.guesses) < 6
                 /\ Len(currentGame'.playerState.guesses) >= Len(Played.guesses)]_vars

\* C28 witness: the sixth guess was accepted and was incorrect: the day is
\* exhausted.
PlayTerminatesWitness ==
    /\ currentGame.loaded
    /\ Exhausted
    /\ Len(Played.guesses) = 6
    /\ lastCall = [op |-> "submitGuess", ret |-> "false"]
    /\ error = "Round complete. Try again on the next daily puzzle."

\* what the host is told about the game on the page, if the page tells it now
ReportOf(game) ==
    [type |-> "GAME_COMPLETE",
     score |-> game.playerState.score,
     guesses |-> Len(game.playerState.guesses),
     streak |-> game.playerState.streak]

SameReport(m, game) ==
    /\ m.type = "GAME_COMPLETE"
    /\ m.score = game.playerState.score
    /\ m.guesses = Len(game.playerState.guesses)
    /\ m.streak = game.playerState.streak

\* at most one report per game, only for a completed game, and with the
\* score, the number of guesses and the streak the game ends with
ReportedAtMostOnce ==
    /\ Len(posted) <= 1
    /\ posted # <<>> =>
          /\ currentGame.loaded
          /\ Played.completed
          /\ SameReport(posted[1], currentGame)

\* a game that has become completed is reported before anything else happens
\* on the page, and a report is never followed by another or taken back
ReportedNext ==
    /\ (currentGame.loaded /\ Played.completed /\ posted = <<>>)
          => (posted' # <<>> \/ (currentGame' = currentGame /\ lastCall' = lastCall))
    /\ (currentGame'.loaded /\ posted # <<>>) => posted' = posted

\* C29: the page reports GAME_COMPLETE to the host exactly once for a game
\* that becomes completed, with that game's final score, number of guesses
\* and streak; a game that ends after six wrong guesses is never reported, and
\* later changes of the state (a hint, a clue, a refused guess, the passing of
\* time) send nothing more.
GameCompleteReportedOnce == []ReportedAtMostOnce /\ [][ReportedNext]_vars

GameCompleteReportedOnceWitness ==
    /\ currentGame.loaded
    /\ Played.completed
    /\ Len(posted) = 1
    /\ SameReport(posted[1], currentGame)
    /\ posted[1].streak = 2
    /\ lastCall = ClueReturn("true")

\* C30: the dayKey sent to the host with a report is the dayKey of the game
\* being played, the one computed at refresh and written to the streak record,
\* also when the report is sent after the UTC date has changed.
ReportCarriesGameDay ==
    \A i \in 1..Len(posted) :
        /\ currentGame.loaded
        /\ posted[i].dayKey = currentGame.dayKey

====
